---- MODULE Spec2Model ----
(***************************************************************************)
(* Copilot Insights (VS Code extension): the provider's snapshot history,  *)
(* its refresh cycle (loadCopilotData), the status bar update and the      *)
(* premium-usage warning, modelled from the extension source.              *)
(*                                                                         *)
(* Three specifications share the handlers: Spec (overlapping refresh      *)
(* cycles), SpecStore (record called on its own) and SpecAlert (the usage  *)
(* warning over two billing cycles and changes of the settings).           *)
(*                                                                         *)
(* Time is counted in whole clock ticks; a timestamp is the tick at which  *)
(* `new Date()` was read.  toISOString()/new Date(s).getTime() is an exact *)
(* round trip on millisecond instants, so a timestamp is kept as the       *)
(* instant it denotes.                                                     *)
(***************************************************************************)
EXTENDS Integers, Sequences, FiniteSets, TLC

\* ---------------------------------------------------------------- constants
MAX_SNAPSHOTS == 10
premiumUsageAlertThreshold == 85

\* ------------------------------------------------------------------- bounds
MaxClock == 1        \* the clock ticks 0..MaxClock
MaxInFlight == 2     \* refresh cycles that may be pending at once
MaxRecords == 15       \* accepted record calls followed in the store model
MaxAsOfHours == 27     \* hours of as-of times followed in the pacing model
MaxRefreshes == 10     \* refreshes followed in the analytics model

\* ------------------------------------------------------------------- inputs
Undefined == "undefined"          \* a globalState key that holds no value
ResetA == "2026-12-01"
ResetB == "2027-01-01"

AbsentQuota == [present |-> FALSE, unlimited |-> FALSE, remaining |-> 0, entitlement |-> 0]
UnlimitedQuota == [present |-> TRUE, unlimited |-> TRUE, remaining |-> 0, entitlement |-> 0]
Limited(r, e) == [present |-> TRUE, unlimited |-> FALSE, remaining |-> r, entitlement |-> e]

NoData == [loaded |-> FALSE, premium |-> AbsentQuota, quota_reset_date_utc |-> ""]
Data(q, d) == [loaded |-> TRUE, premium |-> q, quota_reset_date_utc |-> d]

\* remaining values handed to record directly (store model)
RecordRemainings == {-5, 0, 10, 50}
RecordEntitlements == {100}

\* responses of the Copilot endpoint in the refresh model: one billing cycle
Responses ==
  {Data(q, ResetA) : q \in {AbsentQuota, UnlimitedQuota, Limited(0, 100), Limited(10, 100), Limited(50, 100)}}

\* responses in the warning model: two billing cycles, usage below and above the threshold
AlertResponses ==
  {Data(q, d) : q \in {Limited(10, 100), Limited(50, 100)}, d \in {ResetA, ResetB}}

VARIABLES
  snapshotHistory,      \* this._snapshotHistory, newest first
  globalState,          \* context.globalState: the history key and the alert key
  lastData,             \* this._lastData
  view,                 \* this._view is set
  html,                 \* what the webview shows: "none", "loading", "data", "error"
  statusBarText,        \* this._statusBarItem.text, by kind
  bottomStatusBarText,  \* this._bottomStatusBarItem.text, by kind
  allTogglesOff,        \* showName, showNumericalQuota and showVisualIndicator are all false
  cycles,               \* pending loadCopilotData calls in trigger order, each at its await
  now,                  \* the clock
  lastOp,               \* history variable: the handler that ran last and what it did
  recordLog,            \* history variable: accepted record calls of the store model, newest first
  warnReset,            \* history variable: reset date of the data the status bar last showed
  warnCount,            \* history variable: warnings shown since warnReset last changed (saturates at 2)
  warnedFor,            \* history variable: reset dates a warning was ever shown for
  args,                 \* the inputs of the calculation that is looked at
  result                \* what the calculation last applied to args produced

vars == <<snapshotHistory, globalState, lastData, view, html, statusBarText,
          bottomStatusBarText, allTogglesOff, cycles, now, lastOp, recordLog,
          warnReset, warnCount, warnedFor, args, result>>

\* ------------------------------------------------------------------ helpers
Min(a, b) == IF a < b THEN a ELSE b

RemoveAt(s, i) == SubSeq(s, 1, i - 1) \o SubSeq(s, i + 1, Len(s))

\* Math.round((num / den) * 100) for den > 0: Math.round rounds half up
RoundPercent(num, den) == (200 * num + den) \div (2 * den)

\* a JavaScript string used as a condition
Truthy(s) == s # Undefined /\ s # ""

\* what lastOp holds: the handler, whether it called record and with which
\* remaining value, and whether it showed the warning; passed counts the
\* pending cycles at the front of cycles that a later-triggered refresh has
\* completed ahead of, and late tells that the handler ended such a cycle
Op(name, called, premiumRemaining, warned) ==
  [op |-> name, recordCalled |-> called, remaining |-> premiumRemaining, warned |-> warned,
   passed |-> 0, late |-> FALSE]

\* op, for a handler that ends no cycle
OpKeeping(op) == [op EXCEPT !.passed = lastOp.passed]

\* op, for the handler that ends cycle i
OpOfCycle(op, i) ==
  [op EXCEPT !.passed = IF i <= lastOp.passed THEN lastOp.passed - 1
                        ELSE IF op.op = "data" THEN i - 1
                        ELSE lastOp.passed,
             !.late = i <= lastOp.passed]

\* ------------------------------------------------------------ _addSnapshot
\* Variants of _addSnapshot with one line changed, each used to show that a
\* property below depends on that line.

\* slice(-MAX_SNAPSHOTS): the oldest entries are kept and the new one is dropped
AddSnapshotKeepOldest(hist, gs, premiumRemaining, premiumEntitlement, t) ==
  IF premiumRemaining <= 0
  THEN [history |-> hist, globalState |-> gs]
  ELSE IF Len(hist) > 0 /\ hist[1].premium_remaining = premiumRemaining
  THEN [history |-> hist, globalState |-> gs]
  ELSE LET newSnapshot == [timestamp |-> t,
                           premium_remaining |-> premiumRemaining,
                           premium_entitlement |-> premiumEntitlement]
           unshifted == <<newSnapshot>> \o hist
           kept == IF Len(unshifted) > MAX_SNAPSHOTS
                   THEN SubSeq(unshifted, Len(unshifted) - MAX_SNAPSHOTS + 1, Len(unshifted))
                   ELSE unshifted
       IN [history |-> kept,
           globalState |-> [gs EXCEPT !.snapshotHistory = kept]]

\* no truncation
AddSnapshotNoCap(hist, gs, premiumRemaining, premiumEntitlement, t) ==
  IF premiumRemaining <= 0
  THEN [history |-> hist, globalState |-> gs]
  ELSE IF Len(hist) > 0 /\ hist[1].premium_remaining = premiumRemaining
  THEN [history |-> hist, globalState |-> gs]
  ELSE LET newSnapshot == [timestamp |-> t,
                           premium_remaining |-> premiumRemaining,
                           premium_entitlement |-> premiumEntitlement]
           unshifted == <<newSnapshot>> \o hist
       IN [history |-> unshifted,
           globalState |-> [gs EXCEPT !.snapshotHistory = unshifted]]

\* no comparison with the newest entry
AddSnapshotNoDedup(hist, gs, premiumRemaining, premiumEntitlement, t) ==
  IF premiumRemaining <= 0
  THEN [history |-> hist, globalState |-> gs]
  ELSE LET newSnapshot == [timestamp |-> t,
                           premium_remaining |-> premiumRemaining,
                           premium_entitlement |-> premiumEntitlement]
           unshifted == <<newSnapshot>> \o hist
           kept == IF Len(unshifted) > MAX_SNAPSHOTS
                   THEN SubSeq(unshifted, 1, MAX_SNAPSHOTS)
                   ELSE unshifted
       IN [history |-> kept,
           globalState |-> [gs EXCEPT !.snapshotHistory = kept]]

\* premiumRemaining < 0 in place of <= 0
AddSnapshotZeroAllowed(hist, gs, premiumRemaining, premiumEntitlement, t) ==
  IF premiumRemaining < 0
  THEN [history |-> hist, globalState |-> gs]
  ELSE IF Len(hist) > 0 /\ hist[1].premium_remaining = premiumRemaining
  THEN [history |-> hist, globalState |-> gs]
  ELSE LET newSnapshot == [timestamp |-> t,
                           premium_remaining |-> premiumRemaining,
                           premium_entitlement |-> premiumEntitlement]
           unshifted == <<newSnapshot>> \o hist
           kept == IF Len(unshifted) > MAX_SNAPSHOTS
                   THEN SubSeq(unshifted, 1, MAX_SNAPSHOTS)
                   ELSE unshifted
       IN [history |-> kept,
           globalState |-> [gs EXCEPT !.snapshotHistory = kept]]

\* push in place of unshift (the truncation then drops the oldest at the head)
AddSnapshotPush(hist, gs, premiumRemaining, premiumEntitlement, t) ==
  IF premiumRemaining <= 0
  THEN [history |-> hist, globalState |-> gs]
  ELSE IF Len(hist) > 0 /\ hist[1].premium_remaining = premiumRemaining
  THEN [history |-> hist, globalState |-> gs]
  ELSE LET newSnapshot == [timestamp |-> t,
                           premium_remaining |-> premiumRemaining,
                           premium_entitlement |-> premiumEntitlement]
           pushed == hist \o <<newSnapshot>>
           kept == IF Len(pushed) > MAX_SNAPSHOTS
                   THEN SubSeq(pushed, 1, MAX_SNAPSHOTS)
                   ELSE pushed
       IN [history |-> kept,
           globalState |-> [gs EXCEPT !.snapshotHistory = kept]]

\* no globalState.update
AddSnapshotNoSave(hist, gs, premiumRemaining, premiumEntitlement, t) ==
  IF premiumRemaining <= 0
  THEN [history |-> hist, globalState |-> gs]
  ELSE IF Len(hist) > 0 /\ hist[1].premium_remaining = premiumRemaining
  THEN [history |-> hist, globalState |-> gs]
  ELSE LET newSnapshot == [timestamp |-> t,
                           premium_remaining |-> premiumRemaining,
                           premium_entitlement |-> premiumEntitlement]
           unshifted == <<newSnapshot>> \o hist
           kept == IF Len(unshifted) > MAX_SNAPSHOTS
                   THEN SubSeq(unshifted, 1, MAX_SNAPSHOTS)
                   ELSE unshifted
       IN [history |-> kept, globalState |-> gs]

\* _addSnapshot as written
AddSnapshot(hist, gs, premiumRemaining, premiumEntitlement, t) ==
  IF premiumRemaining <= 0
  THEN [history |-> hist, globalState |-> gs]
  ELSE IF Len(hist) > 0 /\ hist[1].premium_remaining = premiumRemaining
  THEN [history |-> hist, globalState |-> gs]
  ELSE LET newSnapshot == [timestamp |-> t,
                           premium_remaining |-> premiumRemaining,
                           premium_entitlement |-> premiumEntitlement]
           unshifted == <<newSnapshot>> \o hist
           kept == IF Len(unshifted) > MAX_SNAPSHOTS
                   THEN SubSeq(unshifted, 1, MAX_SNAPSHOTS)
                   ELSE unshifted
       IN [history |-> kept,
           globalState |-> [gs EXCEPT !.snapshotHistory = kept]]

\* ------------------------------------------------ _maybeNotifyPremiumUsage
\* variant: the warning is shown but the reset date it was shown for is not stored
MaybeNotifyPremiumUsageNoStore(gs, data, premiumQuota, percentUsed) ==
  IF premiumQuota.entitlement = 0 \/ premiumQuota.unlimited
  THEN [globalState |-> gs, warned |-> FALSE]
  ELSE LET resetDate == data.quota_reset_date_utc
           lastNotifiedReset == gs.premiumUsageAlert
       IN IF percentUsed >= premiumUsageAlertThreshold /\ lastNotifiedReset # resetDate
          THEN [globalState |-> gs, warned |-> TRUE]
          ELSE IF /\ Truthy(lastNotifiedReset)
                  /\ lastNotifiedReset # resetDate
                  /\ percentUsed < premiumUsageAlertThreshold
          THEN [globalState |-> [gs EXCEPT !.premiumUsageAlert = Undefined], warned |-> FALSE]
          ELSE [globalState |-> gs, warned |-> FALSE]

MaybeNotifyPremiumUsage(gs, data, premiumQuota, percentUsed) ==
  IF premiumQuota.entitlement = 0 \/ premiumQuota.unlimited
  THEN [globalState |-> gs, warned |-> FALSE]
  ELSE LET resetDate == data.quota_reset_date_utc
           lastNotifiedReset == gs.premiumUsageAlert
       IN IF percentUsed >= premiumUsageAlertThreshold /\ lastNotifiedReset # resetDate
          THEN [globalState |-> [gs EXCEPT !.premiumUsageAlert = resetDate], warned |-> TRUE]
          ELSE IF /\ Truthy(lastNotifiedReset)
                  /\ lastNotifiedReset # resetDate
                  /\ percentUsed < premiumUsageAlertThreshold
          THEN [globalState |-> [gs EXCEPT !.premiumUsageAlert = Undefined], warned |-> FALSE]
          ELSE [globalState |-> gs, warned |-> FALSE]

\* ------------------------------------------------- _updateBottomStatusBar
UpdateBottomStatusBar(data) ==
  IF data.premium.present /\ ~data.premium.unlimited THEN "quota" ELSE "check"

\* ------------------------------------------------------- _updateStatusBar
\* The result: the new globalState, the two texts and whether a warning was shown.
\* The assignment of _lastData at the head of the method is made by the callers
\* below; show/hide of the items and the tooltips are left out.
UpdateStatusBar(gs, text, bottomText, togglesOff, data) ==
  LET premiumQuota == data.premium
  IN IF premiumQuota.present /\ ~premiumQuota.unlimited
     THEN IF togglesOff
          THEN \* both items are hidden and the method returns
               [globalState |-> gs, statusBarText |-> text,
                bottomStatusBarText |-> bottomText, warned |-> FALSE]
          ELSE LET used == premiumQuota.entitlement - premiumQuota.remaining
                   percentUsed == IF premiumQuota.entitlement = 0 THEN 0
                                  ELSE RoundPercent(used, premiumQuota.entitlement)
                   n == MaybeNotifyPremiumUsage(gs, data, premiumQuota, percentUsed)
               IN [globalState |-> n.globalState, statusBarText |-> "quota",
                   bottomStatusBarText |-> UpdateBottomStatusBar(data), warned |-> n.warned]
     ELSE [globalState |-> gs, statusBarText |-> "check",
           bottomStatusBarText |-> UpdateBottomStatusBar(data), warned |-> FALSE]

\* -------------------------------------------------------- _updateWithData
UpdateWithData(v, h) == IF v THEN "data" ELSE h

\* ------------------------------------------------------- _updateWithError
UpdateWithError(v, h) == IF v THEN "error" ELSE h

\* the history variables of the warning, after the status bar was updated with data
WarnGhost(data, warned) ==
  /\ warnReset' = data.quota_reset_date_utc
  /\ warnCount' = IF data.quota_reset_date_utc # warnReset
                  THEN (IF warned THEN 1 ELSE 0)
                  ELSE Min(warnCount + (IF warned THEN 1 ELSE 0), 2)
  /\ warnedFor' = IF warned THEN warnedFor \cup {data.quota_reset_date_utc} ELSE warnedFor

\* ------------------------------------------------------------------ states
\* no calculation is looked at
NoArgs == [remaining |-> 0]
NoResult == [view |-> "none"]

InitProvider ==
  /\ lastData = NoData
  /\ view = FALSE
  /\ html = "none"
  /\ statusBarText = "loading"
  /\ bottomStatusBarText = "loading"
  /\ allTogglesOff = FALSE
  /\ cycles = <<"auth">>
  /\ now = 0
  /\ lastOp = Op("activate", FALSE, 0, FALSE)
  /\ warnReset = Undefined
  /\ warnCount = 0
  /\ warnedFor = {}

\* a first activation: nothing is persisted yet
Init ==
  /\ InitProvider
  /\ snapshotHistory = <<>>
  /\ globalState = [snapshotHistory |-> <<>>, premiumUsageAlert |-> Undefined]
  /\ recordLog = <<>>
  /\ args = NoArgs
  /\ result = NoResult

\* --------------------------------------------------------------- triggers
\* variant: a new load replaces the loads that are pending
StartLoadExclusive == cycles' = <<"auth">>

\* loadCopilotData is entered: it runs up to its first await
StartLoad == cycles' = Append(cycles, "auth")

\* resolveWebviewView: the view is created, shows the loading page and loads
ResolveWebviewView ==
  /\ Len(cycles) < MaxInFlight
  /\ view' = TRUE
  /\ html' = "loading"
  /\ StartLoad
  /\ UNCHANGED <<lastOp, snapshotHistory, globalState, lastData, statusBarText, bottomStatusBarText,
                 allTogglesOff, now, recordLog, warnReset, warnCount, warnedFor, args, result>>

\* onDidChangeVisibility with the view visible
VisibilityChange ==
  /\ view
  /\ Len(cycles) < MaxInFlight
  /\ StartLoad
  /\ UNCHANGED <<lastOp, snapshotHistory, globalState, lastData, view, html, statusBarText,
                 bottomStatusBarText, allTogglesOff, now, recordLog, warnReset, warnCount, warnedFor, args, result>>

\* the vscode-copilot-insights.refresh command
RefreshCommand ==
  /\ Len(cycles) < MaxInFlight
  /\ StartLoad
  /\ UNCHANGED <<lastOp, snapshotHistory, globalState, lastData, view, html, statusBarText,
                 bottomStatusBarText, allTogglesOff, now, recordLog, warnReset, warnCount, warnedFor, args, result>>

\* ------------------------------------------------- loadCopilotData, by await
\* getSession resolves with a session
SessionResolves(i) ==
  /\ i \in 1..Len(cycles)
  /\ cycles[i] = "auth"
  /\ cycles' = [cycles EXCEPT ![i] = "fetch"]
  /\ UNCHANGED <<lastOp, snapshotHistory, globalState, lastData, view, html, statusBarText,
                 bottomStatusBarText, allTogglesOff, now, recordLog, warnReset, warnCount, warnedFor, args, result>>

\* fetch resolves with an OK response
FetchResolves(i) ==
  /\ i \in 1..Len(cycles)
  /\ cycles[i] = "fetch"
  /\ cycles' = [cycles EXCEPT ![i] = "json"]
  /\ UNCHANGED <<lastOp, snapshotHistory, globalState, lastData, view, html, statusBarText,
                 bottomStatusBarText, allTogglesOff, now, recordLog, warnReset, warnCount, warnedFor, args, result>>

\* variant: the response of a cycle that a later-triggered refresh has
\* completed ahead of does not replace the cached data
JsonResolvesLateKeepsCache(i, data) ==
  /\ i \in 1..Len(cycles)
  /\ cycles[i] = "json"
  /\ LET premiumQ == data.premium
         callsRecord == premiumQ.present /\ ~premiumQ.unlimited
         rec == IF callsRecord
                THEN AddSnapshot(snapshotHistory, globalState,
                                 premiumQ.remaining, premiumQ.entitlement, now)
                ELSE [history |-> snapshotHistory, globalState |-> globalState]
         sb == UpdateStatusBar(rec.globalState, statusBarText, bottomStatusBarText,
                               allTogglesOff, data)
     IN /\ snapshotHistory' = rec.history
        /\ html' = UpdateWithData(view, html)
        /\ lastData' = IF i <= lastOp.passed THEN lastData ELSE data
        /\ globalState' = sb.globalState
        /\ statusBarText' = sb.statusBarText
        /\ bottomStatusBarText' = sb.bottomStatusBarText
        /\ WarnGhost(data, sb.warned)
        /\ lastOp' = OpOfCycle(Op("data", callsRecord, premiumQ.remaining, sb.warned), i)
  /\ cycles' = RemoveAt(cycles, i)
  /\ UNCHANGED <<view, allTogglesOff, now, recordLog, args, result>>

\* response.json() resolves with data: record, render, update the status bar
JsonResolves(i, data) ==
  /\ i \in 1..Len(cycles)
  /\ cycles[i] = "json"
  /\ LET premiumQ == data.premium
         callsRecord == premiumQ.present /\ ~premiumQ.unlimited
         rec == IF callsRecord
                THEN AddSnapshot(snapshotHistory, globalState,
                                 premiumQ.remaining, premiumQ.entitlement, now)
                ELSE [history |-> snapshotHistory, globalState |-> globalState]
         sb == UpdateStatusBar(rec.globalState, statusBarText, bottomStatusBarText,
                               allTogglesOff, data)
     IN /\ snapshotHistory' = rec.history
        /\ html' = UpdateWithData(view, html)
        /\ lastData' = data
        /\ globalState' = sb.globalState
        /\ statusBarText' = sb.statusBarText
        /\ bottomStatusBarText' = sb.bottomStatusBarText
        /\ WarnGhost(data, sb.warned)
        /\ lastOp' = OpOfCycle(Op("data", callsRecord, premiumQ.remaining, sb.warned), i)
  /\ cycles' = RemoveAt(cycles, i)
  /\ UNCHANGED <<view, allTogglesOff, now, recordLog, args, result>>

\* variant: a failed refresh also empties the history
RefreshFailsClearsHistory(i) ==
  /\ i \in 1..Len(cycles)
  /\ cycles[i] \in {"auth", "fetch", "json"}
  /\ html' = UpdateWithError(view, html)
  /\ statusBarText' = "error"
  /\ bottomStatusBarText' = "error"
  /\ cycles' = RemoveAt(cycles, i)
  /\ lastOp' = OpOfCycle(Op("error", FALSE, 0, FALSE), i)
  /\ snapshotHistory' = <<>>
  /\ UNCHANGED <<globalState, lastData, view, allTogglesOff, now,
                 recordLog, warnReset, warnCount, warnedFor, args, result>>

\* variant: a failed refresh also forgets the cached data
RefreshFailsDropsCache(i) ==
  /\ i \in 1..Len(cycles)
  /\ cycles[i] \in {"auth", "fetch", "json"}
  /\ html' = UpdateWithError(view, html)
  /\ statusBarText' = "error"
  /\ bottomStatusBarText' = "error"
  /\ cycles' = RemoveAt(cycles, i)
  /\ lastOp' = OpOfCycle(Op("error", FALSE, 0, FALSE), i)
  /\ lastData' = NoData
  /\ UNCHANGED <<snapshotHistory, globalState, view, allTogglesOff, now,
                 recordLog, warnReset, warnCount, warnedFor, args, result>>

\* no session, a rejected await or a non-OK response: _updateWithError
RefreshFails(i) ==
  /\ i \in 1..Len(cycles)
  /\ cycles[i] \in {"auth", "fetch", "json"}
  /\ html' = UpdateWithError(view, html)
  /\ statusBarText' = "error"
  /\ bottomStatusBarText' = "error"
  /\ cycles' = RemoveAt(cycles, i)
  /\ lastOp' = OpOfCycle(Op("error", FALSE, 0, FALSE), i)
  /\ UNCHANGED <<snapshotHistory, globalState, lastData, view, allTogglesOff, now,
                 recordLog, warnReset, warnCount, warnedFor, args, result>>

\* ------------------------------------------- onDidChangeConfiguration
\* a visual setting changed; off is the state of the three toggles afterwards
ConfigChange(off) ==
  /\ allTogglesOff' = off
  /\ IF lastData.loaded
     THEN LET sb == UpdateStatusBar(globalState, statusBarText, bottomStatusBarText,
                                    off, lastData)
          IN /\ globalState' = sb.globalState
             /\ statusBarText' = sb.statusBarText
             /\ bottomStatusBarText' = sb.bottomStatusBarText
             /\ html' = UpdateWithData(view, html)
             /\ WarnGhost(lastData, sb.warned)
             /\ lastOp' = OpKeeping(Op("config", FALSE, 0, sb.warned))
     ELSE /\ UNCHANGED <<globalState, statusBarText, bottomStatusBarText, html,
                         warnReset, warnCount, warnedFor>>
          /\ lastOp' = OpKeeping(Op("config", FALSE, 0, FALSE))
  /\ UNCHANGED <<snapshotHistory, lastData, view, cycles, now, recordLog, args, result>>

\* ------------------------------------------------------------------ clock
Tick ==
  /\ now < MaxClock
  /\ now' = now + 1
  /\ UNCHANGED <<lastOp, snapshotHistory, globalState, lastData, view, html, statusBarText,
                 bottomStatusBarText, allTogglesOff, cycles, recordLog,
                 warnReset, warnCount, warnedFor, args, result>>

\* ------------------------------------ activate after a restart of the host
\* the constructor reads the persisted history; pending cycles died with the host
Restart ==
  /\ snapshotHistory' = globalState.snapshotHistory
  /\ lastData' = NoData
  /\ view' = FALSE
  /\ html' = "none"
  /\ statusBarText' = "loading"
  /\ bottomStatusBarText' = "loading"
  /\ cycles' = <<"auth">>
  /\ lastOp' = Op("activate", FALSE, 0, FALSE)
  /\ UNCHANGED <<globalState, allTogglesOff, now, recordLog, warnReset, warnCount, warnedFor, args, result>>

\* ----------------------------------------------- record, called on its own
Record(premiumRemaining, premiumEntitlement) ==
  /\ Len(recordLog) < MaxRecords
  /\ LET rec == AddSnapshot(snapshotHistory, globalState,
                            premiumRemaining, premiumEntitlement, now)
         entry == [timestamp |-> now,
                   premium_remaining |-> premiumRemaining,
                   premium_entitlement |-> premiumEntitlement]
     IN /\ snapshotHistory' = rec.history
        /\ globalState' = rec.globalState
        /\ recordLog' = IF /\ premiumRemaining > 0
                           /\ (recordLog = <<>> \/ recordLog[1].premium_remaining # premiumRemaining)
                        THEN <<entry>> \o recordLog
                        ELSE recordLog
  /\ lastOp' = OpKeeping(Op("record", TRUE, premiumRemaining, FALSE))
  /\ UNCHANGED <<lastData, view, html, statusBarText, bottomStatusBarText, allTogglesOff,
                 cycles, now, warnReset, warnCount, warnedFor, args, result>>

\* --------------------------------------------------------- specifications
\* the refresh model: overlapping refresh cycles within one billing cycle, the
\* clock and restarts; the settings stay as installed
Next ==
  \/ ResolveWebviewView
  \/ VisibilityChange
  \/ RefreshCommand
  \/ \E i \in 1..MaxInFlight : SessionResolves(i)
  \/ \E i \in 1..MaxInFlight : FetchResolves(i)
  \/ \E i \in 1..MaxInFlight, data \in Responses : JsonResolves(i, data)
  \/ \E i \in 1..MaxInFlight : RefreshFails(i)
  \/ Tick
  \/ Restart

Spec == Init /\ [][Next]_vars

\* the store model: record called directly, the clock and restarts
NextStore ==
  \/ \E r \in RecordRemainings, e \in RecordEntitlements : Record(r, e)
  \/ Tick
  \/ Restart

SpecStore == Init /\ [][NextStore]_vars

\* the warning model: refreshes over two billing cycles, changes of the settings
\* and restarts, within one clock tick
NextAlert ==
  \/ ResolveWebviewView
  \/ VisibilityChange
  \/ RefreshCommand
  \/ \E i \in 1..MaxInFlight : SessionResolves(i)
  \/ \E i \in 1..MaxInFlight : FetchResolves(i)
  \/ \E i \in 1..MaxInFlight, data \in AlertResponses : JsonResolves(i, data)
  \/ \E i \in 1..MaxInFlight : RefreshFails(i)
  \/ \E off \in BOOLEAN : ConfigChange(off)
  \/ Restart

SpecAlert == Init /\ [][NextAlert]_vars

\* -------------------------------------------- JavaScript Number arithmetic
\* A Number is an IEEE-754 double.  Its 53-bit significand does not fit the
\* integers of the model checker, so naturals of any size are kept as
\* sequences of limbs (least significant first, no leading zero limb) and a
\* double is a sign, a 53-bit significand m and an exponent e (value m * 2^e).
LimbBits == 14
LimbBase == 16384
SignificandBits == 53

RECURSIVE Pow2(_)
Pow2(n) == IF n = 0 THEN 1 ELSE 2 * Pow2(n - 1)

RECURSIVE BitLen(_)
BitLen(n) == IF n = 0 THEN 0 ELSE 1 + BitLen(n \div 2)

RECURSIVE BigTrim(_)
BigTrim(a) ==
  IF Len(a) > 0 /\ a[Len(a)] = 0 THEN BigTrim(SubSeq(a, 1, Len(a) - 1)) ELSE a

RECURSIVE BigOf(_)
BigOf(n) == IF n = 0 THEN <<>> ELSE <<n % LimbBase>> \o BigOf(n \div LimbBase)

RECURSIVE BigVal(_)
BigVal(a) == IF a = <<>> THEN 0 ELSE a[1] + LimbBase * BigVal(Tail(a))

Limb(a, i) == IF i <= Len(a) THEN a[i] ELSE 0

RECURSIVE BigAddFrom(_, _, _, _)
BigAddFrom(a, b, i, carry) ==
  IF i > Len(a) /\ i > Len(b)
  THEN IF carry = 0 THEN <<>> ELSE <<carry>>
  ELSE LET s == Limb(a, i) + Limb(b, i) + carry
       IN  <<s % LimbBase>> \o BigAddFrom(a, b, i + 1, s \div LimbBase)

BigAdd(a, b) == BigAddFrom(a, b, 1, 0)

\* a - b for a >= b
RECURSIVE BigSubFrom(_, _, _, _)
BigSubFrom(a, b, i, borrow) ==
  IF i > Len(a)
  THEN <<>>
  ELSE LET d == a[i] - Limb(b, i) - borrow
       IN  IF d < 0
           THEN <<d + LimbBase>> \o BigSubFrom(a, b, i + 1, 1)
           ELSE <<d>> \o BigSubFrom(a, b, i + 1, 0)

BigSub(a, b) == BigTrim(BigSubFrom(a, b, 1, 0))

\* -1, 0 or 1 as a < b, a = b or a > b
RECURSIVE BigCmpFrom(_, _, _)
BigCmpFrom(a, b, i) ==
  IF i = 0 THEN 0
  ELSE IF a[i] < b[i] THEN -1
  ELSE IF a[i] > b[i] THEN 1
  ELSE BigCmpFrom(a, b, i - 1)

BigCmp(a, b) ==
  IF Len(a) < Len(b) THEN -1
  ELSE IF Len(a) > Len(b) THEN 1
  ELSE BigCmpFrom(a, b, Len(a))

\* a * k for 0 <= k <= LimbBase
RECURSIVE BigMulSmallFrom(_, _, _, _)
BigMulSmallFrom(a, k, i, carry) ==
  IF i > Len(a)
  THEN IF carry = 0 THEN <<>> ELSE <<carry>>
  ELSE LET p == a[i] * k + carry
       IN  <<p % LimbBase>> \o BigMulSmallFrom(a, k, i + 1, p \div LimbBase)

BigMulSmall(a, k) == BigTrim(BigMulSmallFrom(a, k, 1, 0))

RECURSIVE BigMulFrom(_, _, _)
BigMulFrom(a, b, i) ==
  IF i > Len(b)
  THEN <<>>
  ELSE BigAdd(BigMulSmall(a, b[i]), <<0>> \o BigMulFrom(a, b, i + 1))

BigMul(a, b) == BigTrim(BigMulFrom(a, b, 1))

BigBitLen(a) ==
  IF a = <<>> THEN 0 ELSE LimbBits * (Len(a) - 1) + BitLen(a[Len(a)])

\* bit i of a, bit 0 the least significant
BigBit(a, i) == (Limb(a, (i \div LimbBits) + 1) \div Pow2(i % LimbBits)) % 2

\* a * 2^k
BigShl(a, k) ==
  IF a = <<>> THEN <<>>
  ELSE [i \in 1..(k \div LimbBits) |-> 0] \o BigMulSmall(a, Pow2(k % LimbBits))

\* floor(a / 2^k)
BigShr(a, k) ==
  LET drop == k \div LimbBits
      r    == k % LimbBits
  IN  IF drop >= Len(a) THEN <<>>
      ELSE BigTrim([i \in 1..(Len(a) - drop) |->
                      (a[i + drop] \div Pow2(r))
                      + (Limb(a, i + drop + 1) % Pow2(r)) * Pow2(LimbBits - r)])

\* a mod 2^k
BigLowBits(a, k) ==
  LET keep == k \div LimbBits
      r    == k % LimbBits
  IN  IF keep >= Len(a) THEN a
      ELSE BigTrim(SubSeq(a, 1, keep) \o <<a[keep + 1] % Pow2(r)>>)

\* the end of a step of long division: r2 is the remainder with the next bit
\* of the dividend brought down
BigDivFit(st, r2, b) ==
  IF BigCmp(r2, b) >= 0
  THEN [q |-> BigAdd(BigMulSmall(st.q, 2), <<1>>), r |-> BigSub(r2, b)]
  ELSE [q |-> BigMulSmall(st.q, 2), r |-> r2]

\* one step of long division: the next bit of the dividend is brought down
\* to the remainder st.r and the next bit of the quotient st.q is found
BigDivStep(st, bit, b) == BigDivFit(st, BigAdd(BigMulSmall(st.r, 2), BigOf(bit)), b)

\* the steps for bits hi down to lo of a: the upper half of the range, whose
\* remainder is below b, and then the lower half; once nothing is left of the
\* dividend the quotient bits are zero
RECURSIVE BigDivBits(_, _, _, _, _)
BigDivBits(st, a, b, hi, lo) ==
  IF hi < lo THEN st
  ELSE IF st.r = <<>> /\ a = <<>> THEN [q |-> BigShl(st.q, hi - lo + 1), r |-> <<>>]
  ELSE IF hi = lo THEN BigDivStep(st, BigBit(a, hi), b)
  ELSE LET mid   == (hi + lo) \div 2
           upper == BigDivBits(st, a, b, hi, mid + 1)
       IN  IF BigCmp(upper.r, b) < 0
           THEN BigDivBits(upper, a, b, mid, lo)
           ELSE upper

\* q and r with a = q * b + r and r < b, for b # 0
BigDivMod(a, b) == BigDivBits([q |-> <<>>, r |-> <<>>], a, b, BigBitLen(a) - 1, 0)

Zero == [neg |-> FALSE, m |-> <<>>, e |-> 0]

\* the double (-1)^neg * q * 2^e for q of 53 or 54 bits
FRoundCarry(neg, q, e) ==
  IF BigBitLen(q) > SignificandBits
  THEN [neg |-> neg, m |-> BigShr(q, 1), e |-> e + 1]
  ELSE [neg |-> neg, m |-> q, e |-> e]

\* the double nearest to (-1)^neg * (q + f) * 2^e for q of 53 bits and a
\* fraction f that is below, at or above a half as c is -1, 0 or 1 (and above
\* it when sticky), ties to the even significand
FRoundCut(neg, q, c, e, sticky) ==
  FRoundCarry(neg,
              IF c > 0 \/ (c = 0 /\ (sticky \/ BigBit(q, 0) = 1))
              THEN BigAdd(q, <<1>>) ELSE q,
              e)

\* FRound for n of len bits
FRoundLen(neg, n, e, sticky, len) ==
  IF len = 0 THEN Zero
  ELSE IF len <= SignificandBits
  THEN [neg |-> neg, m |-> BigShl(n, SignificandBits - len),
        e |-> e - (SignificandBits - len)]
  ELSE FRoundCut(neg, BigShr(n, len - SignificandBits),
                 BigCmp(BigLowBits(n, len - SignificandBits),
                        BigShl(<<1>>, len - SignificandBits - 1)),
                 e + (len - SignificandBits), sticky)

\* the double nearest to (-1)^neg * (n * 2^e + a positive amount below 2^e
\* when sticky), ties to the even significand
FRound(neg, n, e, sticky) == FRoundLen(neg, n, e, sticky, BigBitLen(n))

\* an integer as a Number
Num(n) == FRound(n < 0, BigOf(IF n < 0 THEN -n ELSE n), 0, FALSE)

FNeg(x) == IF x.m = <<>> THEN x ELSE [x EXCEPT !.neg = ~x.neg]

\* x * y
FMul(x, y) ==
  IF x.m = <<>> \/ y.m = <<>> THEN Zero
  ELSE FRound(x.neg # y.neg, BigMul(x.m, y.m), x.e + y.e, FALSE)

\* x / y for y # 0: the significands have the same length, so the division
\* starts from their comparison and brings down zero bits
DivisionBits == 56

FDivRounded(neg, d, e) == FRound(neg, d.q, e, d.r # <<>>)

FDiv(x, y) ==
  IF x.m = <<>> THEN Zero
  ELSE FDivRounded(x.neg # y.neg,
                   BigDivBits(IF BigCmp(x.m, y.m) >= 0
                              THEN [q |-> <<1>>, r |-> BigSub(x.m, y.m)]
                              ELSE [q |-> <<>>, r |-> x.m],
                              <<>>, y.m, DivisionBits - 1, 0),
                   x.e - y.e - DivisionBits)

\* xm * 2^e of sign xneg plus ym * 2^e of the other sign, c comparing xm with ym
FAddSigned(xneg, xm, ym, e, c) ==
  IF c = 0 THEN Zero
  ELSE FRound(IF c > 0 THEN xneg ELSE ~xneg,
              IF c > 0 THEN BigSub(xm, ym) ELSE BigSub(ym, xm), e, FALSE)

\* xm * 2^e of sign xneg plus ym * 2^e of sign yneg
FAddAligned(xneg, xm, yneg, ym, e) ==
  IF xneg = yneg THEN FRound(xneg, BigAdd(xm, ym), e, FALSE)
  ELSE FAddSigned(xneg, xm, ym, e, BigCmp(xm, ym))

\* x + y
FAdd(x, y) ==
  IF x.m = <<>> THEN y
  ELSE IF y.m = <<>> THEN x
  ELSE FAddAligned(x.neg, BigShl(x.m, x.e - Min(x.e, y.e)),
                   y.neg, BigShl(y.m, y.e - Min(x.e, y.e)), Min(x.e, y.e))

\* x < 0
FNegative(x) == x.m # <<>> /\ x.neg

\* Math.abs(x)
FAbs(x) == [x EXCEPT !.neg = FALSE]

\* x - y
FSub(x, y) == FAdd(x, FNeg(y))

\* x < y
FLess(x, y) == FNegative(FSub(x, y))

\* Math.max(x, y)
FMax(x, y) == IF FLess(x, y) THEN y ELSE x

\* variant: Math.ceil in the place of Math.floor
Ceil(x) ==
  IF x.m = <<>> THEN 0
  ELSE IF x.e >= 0 THEN (IF x.neg THEN -1 ELSE 1) * BigVal(BigShl(x.m, x.e))
  ELSE LET q    == BigVal(BigShr(x.m, -x.e))
           frac == BigLowBits(x.m, -x.e) # <<>>
       IN  IF x.neg THEN -q ELSE (IF frac THEN q + 1 ELSE q)

\* Math.floor(x) as an integer, for |x| < 2^31
Floor(x) ==
  IF x.m = <<>> THEN 0
  ELSE IF x.e >= 0 THEN (IF x.neg THEN -1 ELSE 1) * BigVal(BigShl(x.m, x.e))
  ELSE LET q    == BigVal(BigShr(x.m, -x.e))
           frac == BigLowBits(x.m, -x.e) # <<>>
       IN  IF x.neg THEN (IF frac THEN -q - 1 ELSE -q) ELSE q

\* variant: the fraction is dropped
RoundDown(x) == Floor(x)

\* Math.round(x) as an integer, for |x| < 2^31: floor(x + 0.5) without rounding the sum
Round(x) ==
  IF x.m = <<>> THEN 0
  ELSE IF x.e >= 0 THEN Floor(x)
  ELSE LET half == BigShl(<<1>>, -x.e - 1)
       IN  IF ~x.neg THEN BigVal(BigShr(BigAdd(x.m, half), -x.e))
           ELSE IF BigCmp(x.m, half) <= 0 THEN 0
           ELSE LET d == BigSub(x.m, half)
                IN  -(BigVal(BigShr(d, -x.e))
                      + (IF BigLowBits(d, -x.e) # <<>> THEN 1 ELSE 0))
\* ------------------------------------------------------------------ pacing
\* instants are milliseconds since an epoch, as Date.getTime() gives them
MsPerHour == 1000 * 60 * 60
MsPerDay == 1000 * 60 * 60 * 24

\* the literal 0.33: the double nearest to 33/100
Literal033 == FDiv(Num(33), Num(100))

\* _calculateDaysUntilReset
CalculateDaysUntilReset(resetDate, asOfTime) ==
  LET diffMs   == resetDate - asOfTime
      diffDays == FDiv(Num(diffMs), Num(MsPerDay))
      days     == Floor(diffDays)
      hours    == Floor(FMul(FSub(diffDays, Num(days)), Num(24)))
  IN  [days |-> days, hours |-> hours, totalDays |-> diffDays]

Row(label, value) == [label |-> label, value |-> value]

NoPacing ==
  [allowedPerDay |-> Undefined, weeksRemaining |-> Undefined,
   allowedPerWeek |-> Undefined, workingDays |-> Undefined,
   allowedPerWorkDay |-> Undefined, totalWorkingHours |-> Undefined,
   allowedPerHour |-> Undefined, budget033 |-> Undefined,
   budget1 |-> Undefined, budget3 |-> Undefined, rows |-> <<>>]

\* the pacing card when the reset is ahead: the overage summary, or the
\* recommendations with their constants and the rows they are rendered in
PacingCard(remaining, timeUntilReset) ==
  LET isOverQuota       == remaining < 0
      overageAmount     == IF isOverQuota THEN -remaining ELSE 0
      totalDays         == timeUntilReset.totalDays
      allowedPerDay     == Floor(FDiv(Num(remaining), totalDays))
      weeksRemaining    == FMax(Num(1), FDiv(totalDays, Num(7)))
      allowedPerWeek    == Floor(FDiv(Num(remaining), weeksRemaining))
      workingDays       == Floor(FMul(totalDays, FDiv(Num(5), Num(7))))
      allowedPerWorkDay == IF workingDays > 0
                           THEN Floor(FDiv(Num(remaining), Num(workingDays)))
                           ELSE 0
      totalWorkingHours == workingDays * 8
      allowedPerHour    == IF totalWorkingHours > 0
                           THEN Floor(FDiv(Num(remaining), Num(totalWorkingHours)))
                           ELSE 0
      budget033         == Floor(FDiv(FDiv(Num(remaining), Literal033), totalDays))
      budget1           == Floor(FDiv(Num(remaining), totalDays))
      budget3           == Floor(FDiv(FDiv(Num(remaining), Num(3)), totalDays))
  IN  IF isOverQuota
      THEN [NoPacing EXCEPT !.rows = <<Row("Over by:", overageAmount)>>]
      ELSE [allowedPerDay |-> allowedPerDay, weeksRemaining |-> weeksRemaining,
            allowedPerWeek |-> allowedPerWeek, workingDays |-> workingDays,
            allowedPerWorkDay |-> allowedPerWorkDay,
            totalWorkingHours |-> totalWorkingHours, allowedPerHour |-> allowedPerHour,
            budget033 |-> budget033, budget1 |-> budget1, budget3 |-> budget3,
            rows |-> <<Row("To last until reset:", allowedPerDay),
                       Row("Reset in:", <<timeUntilReset.days, timeUntilReset.hours>>),
                       Row("Weekly average:", allowedPerWeek),
                       Row("Work day average:", allowedPerWorkDay),
                       Row("Work hour average:", allowedPerHour),
                       Row("Efficient (0.33x):", budget033),
                       Row("Standard (1x):", budget1),
                       Row("Advanced (3x):", budget3)>>]

\* variant: the card is built whether or not the reset is ahead
PacingHtmlUnguarded(remaining, timeUntilReset) ==
  IF timeUntilReset.totalDays = Zero
  THEN [NoPacing EXCEPT !.rows = <<Row("To last until reset:", 0)>>]
  ELSE PacingCard(remaining, timeUntilReset)

\* pacingHtml of a quota in _getHtmlForWebview: empty unless totalDays > 0
PacingHtml(remaining, timeUntilReset) ==
  IF FLess(Zero, timeUntilReset.totalDays)
  THEN PacingCard(remaining, timeUntilReset)
  ELSE NoPacing

\* the pacing lines of a quota in _generateMarkdownSummary
PacingMarkdown(remaining, timeUntilReset) ==
  LET isOverQuota   == remaining < 0
      totalDays     == timeUntilReset.totalDays
      allowedPerDay == Floor(FDiv(Num(remaining), totalDays))
      resetIn       == Row("Reset in:", <<timeUntilReset.days, timeUntilReset.hours>>)
  IN  IF ~FLess(Zero, totalDays)
      THEN [allowedPerDay |-> Undefined, rows |-> <<>>]
      ELSE IF isOverQuota
      THEN [allowedPerDay |-> Undefined, rows |-> <<resetIn>>]
      ELSE [allowedPerDay |-> allowedPerDay,
            rows |-> <<Row("To last until reset:", allowedPerDay), resetIn>>]

\* the inputs of the pacing model: a limited quota's remaining amount, the
\* reset date and the as-of time of the response
PacingRemainings == {-5, 0, 35, 700}
PacingResetDates == {26 * MsPerHour, 194 * MsPerHour}
PacingAsOfTimes ==
  {h * MsPerHour : h \in 0..MaxAsOfHours} \cup {1, 90 * 60 * 1000}

PacingArgs ==
  [remaining : PacingRemainings, resetDate : PacingResetDates, asOfTime : PacingAsOfTimes]

InitPacing ==
  /\ InitProvider
  /\ snapshotHistory = <<>>
  /\ globalState = [snapshotHistory |-> <<>>, premiumUsageAlert |-> Undefined]
  /\ recordLog = <<>>
  /\ args \in PacingArgs
  /\ result = NoResult

\* the sidebar is rendered for the response in args
RenderSidebar ==
  /\ LET timeUntilReset == CalculateDaysUntilReset(args.resetDate, args.asOfTime)
     IN  result' = [view |-> "sidebar", args |-> args, timeUntilReset |-> timeUntilReset,
                    pacing |-> PacingHtml(args.remaining, timeUntilReset)]
  /\ UNCHANGED <<snapshotHistory, globalState, lastData, view, html, statusBarText,
                 bottomStatusBarText, allTogglesOff, cycles, now, lastOp, recordLog,
                 warnReset, warnCount, warnedFor, args>>

\* the Markdown summary is generated for the response in args
RenderMarkdown ==
  /\ LET timeUntilReset == CalculateDaysUntilReset(args.resetDate, args.asOfTime)
     IN  result' = [view |-> "markdown", args |-> args, timeUntilReset |-> timeUntilReset,
                    pacing |-> PacingMarkdown(args.remaining, timeUntilReset)]
  /\ UNCHANGED <<snapshotHistory, globalState, lastData, view, html, statusBarText,
                 bottomStatusBarText, allTogglesOff, cycles, now, lastOp, recordLog,
                 warnReset, warnCount, warnedFor, args>>

\* the next response, an hour later, after the one in args was rendered
LaterResponse ==
  /\ result.view # "none"
  /\ result.args = args
  /\ args.asOfTime + MsPerHour <= MaxAsOfHours * MsPerHour
  /\ args' = [args EXCEPT !.asOfTime = @ + MsPerHour]
  /\ UNCHANGED <<snapshotHistory, globalState, lastData, view, html, statusBarText,
                 bottomStatusBarText, allTogglesOff, cycles, now, lastOp, recordLog,
                 warnReset, warnCount, warnedFor, result>>

\* the pacing model: responses an hour apart, each rendered in the sidebar or
\* as Markdown
NextPacing ==
  \/ RenderSidebar
  \/ RenderMarkdown
  \/ LaterResponse

SpecPacing == InitPacing /\ [][NextPacing]_vars

\* -------------------------------------------------------------- analytics
\* a value that may be null: no element, or the value
Null == <<>>
Some(v) == <<v>>

Abs(x) == IF x < 0 THEN -x ELSE x

\* new Date(d).getTime() of a reset date, in milliseconds since the epoch of
\* the model (2026-11-11T00:00:00Z)
DateMs(d) == CASE d = ResetA -> 20 * MsPerDay

\* timestamps are written by toISOString() and read back by new Date(): both
\* keep the millisecond, so an entry's timestamp is the instant it was taken

\* the loop of _getSnapshotComparisons: the index of closestYesterdaySnapshot
\* (0 for null) after the entries i.. have been looked at
RECURSIVE ClosestYesterdayFrom(_, _, _, _, _)
ClosestYesterdayFrom(hist, i, current, closest, closestTimeDiff) ==
  IF i > Len(hist) THEN closest
  ELSE LET oneDayAgo    == current - 24 * 60 * 60 * 1000
           snapshotTime == hist[i].timestamp
           timeDiff     == Abs(snapshotTime - oneDayAgo)
       IN  IF /\ snapshotTime <= current - 12 * 60 * 60 * 1000
              /\ (closest = 0 \/ timeDiff < closestTimeDiff)
           THEN ClosestYesterdayFrom(hist, i + 1, current, i, timeDiff)
           ELSE ClosestYesterdayFrom(hist, i + 1, current, closest, closestTimeDiff)

\* variant: the difference is taken the other way round
GetSnapshotComparisonsReversed(hist) ==
  IF Len(hist) < 2
  THEN [sinceLastRefresh |-> Null, sinceYesterday |-> Null]
  ELSE LET current         == hist[1]
           previousRefresh == hist[2]
           closest         == ClosestYesterdayFrom(hist, 1, current.timestamp, 0, 0)
       IN  [sinceLastRefresh |->
              Some(previousRefresh.premium_remaining - current.premium_remaining),
            sinceYesterday |->
              IF closest = 0 THEN Null
              ELSE Some(current.premium_remaining - hist[closest].premium_remaining)]

\* variant: entries more than 48 hours older than the newest one are not looked at
GetSnapshotComparisonsWithin48h(hist) ==
  IF Len(hist) < 2
  THEN [sinceLastRefresh |-> Null, sinceYesterday |-> Null]
  ELSE LET current == hist[1]
           recent  == SelectSeq(hist, LAMBDA s :
                                  s.timestamp >= current.timestamp - 48 * 60 * 60 * 1000)
           closest == ClosestYesterdayFrom(recent, 1, current.timestamp, 0, 0)
       IN  [sinceLastRefresh |-> Some(current.premium_remaining - hist[2].premium_remaining),
            sinceYesterday |->
              IF closest = 0 THEN Null
              ELSE Some(current.premium_remaining - recent[closest].premium_remaining)]

\* _getSnapshotComparisons
GetSnapshotComparisons(hist) ==
  IF Len(hist) < 2
  THEN [sinceLastRefresh |-> Null, sinceYesterday |-> Null]
  ELSE LET current         == hist[1]
           previousRefresh == hist[2]
           closest         == ClosestYesterdayFrom(hist, 1, current.timestamp, 0, 0)
       IN  [sinceLastRefresh |->
              Some(current.premium_remaining - previousRefresh.premium_remaining),
            sinceYesterday |->
              IF closest = 0 THEN Null
              ELSE Some(current.premium_remaining - hist[closest].premium_remaining)]

\* variant: a pair outside 1 to 72 hours is taken as 1 or 72 hours apart
PredictionUsageClamped(usage, hoursDiff, rest) ==
  IF usage > 0
  THEN <<FMul(FDiv(Num(usage),
                   IF FLess(hoursDiff, Num(1)) THEN Num(1)
                   ELSE IF FLess(Num(72), hoursDiff) THEN Num(72)
                   ELSE hoursDiff),
              Num(24))>> \o rest
  ELSE rest

\* the body of the usageData loop of _getWeightedPrediction for a pair hoursDiff
\* hours apart between which usage requests were used: its daily rate is put
\* before the rates of the older pairs if the pair is valid
PredictionUsage(usage, hoursDiff, rest) ==
  IF ~FLess(hoursDiff, Num(1)) /\ ~FLess(Num(72), hoursDiff) /\ usage > 0
  THEN <<FMul(FDiv(Num(usage), hoursDiff), Num(24))>> \o rest
  ELSE rest

\* the usageData loop of _getWeightedPrediction
RECURSIVE PredictionUsageData(_, _)
PredictionUsageData(hist, i) ==
  IF i > Len(hist) - 1 THEN <<>>
  ELSE PredictionUsage(hist[i + 1].premium_remaining - hist[i].premium_remaining,
                       FDiv(Num(hist[i].timestamp - hist[i + 1].timestamp), Num(MsPerHour)),
                       PredictionUsageData(hist, i + 1))

\* variant: the loop takes pairs any time apart
TrendUsageAnyInterval(usage, hoursDiff, rest) ==
  IF usage > 0
  THEN <<FMul(FDiv(Num(usage), hoursDiff), Num(24))>> \o rest
  ELSE rest

\* the body of the usageData loop of _getTrendPrediction
TrendUsage(usage, hoursDiff, rest) ==
  IF ~FLess(hoursDiff, Num(1)) /\ ~FLess(Num(72), hoursDiff) /\ usage > 0
  THEN <<FMul(FDiv(Num(usage), hoursDiff), Num(24))>> \o rest
  ELSE rest

\* the usageData loop of _getTrendPrediction
RECURSIVE TrendUsageData(_, _)
TrendUsageData(hist, i) ==
  IF i > Len(hist) - 1 THEN <<>>
  ELSE TrendUsage(hist[i + 1].premium_remaining - hist[i].premium_remaining,
                  FDiv(Num(hist[i].timestamp - hist[i + 1].timestamp), Num(MsPerHour)),
                  TrendUsageData(hist, i + 1))

\* usageData.reduce((sum, d) => sum + d.usage, 0) over the first n entries
RECURSIVE SumUsage(_, _)
SumUsage(usageData, n) ==
  IF n = 0 THEN Zero ELSE FAdd(SumUsage(usageData, n - 1), usageData[n])

\* the exhaustion part of _getWeightedPrediction
Exhaustion(daysUntilExhaustion, daysUntilReset) ==
  [daysUntilExhaustion |-> Some(daysUntilExhaustion),
   willExhaustBeforeReset |-> FLess(Num(daysUntilExhaustion), daysUntilReset)]

\* the value _getWeightedPrediction returns
PredictionResult(predictedDailyUsage, totalDataPoints, exhaustion) ==
  [predictedDailyUsage |-> Round(predictedDailyUsage),
   confidence |-> IF totalDataPoints >= 7 THEN "high"
                  ELSE IF totalDataPoints >= 3 THEN "medium"
                  ELSE "low",
   daysUntilExhaustion |-> exhaustion.daysUntilExhaustion,
   willExhaustBeforeReset |-> exhaustion.willExhaustBeforeReset,
   dataPoints |-> totalDataPoints]

\* variant: the days until exhaustion are taken from the rounded daily usage
PredictionReportFromRounded(predictedDailyUsage, totalDataPoints, data, today) ==
  PredictionResult(
    predictedDailyUsage, totalDataPoints,
    IF data.premium.present /\ ~data.premium.unlimited
         /\ FLess(Zero, predictedDailyUsage)
    THEN Exhaustion(Floor(FDiv(Num(data.premium.remaining),
                               Num(Round(predictedDailyUsage)))),
                    FDiv(Num(DateMs(data.quota_reset_date_utc) - today),
                         Num(MsPerDay)))
    ELSE [daysUntilExhaustion |-> Null, willExhaustBeforeReset |-> FALSE])

\* the report _getWeightedPrediction makes of the mean of totalDataPoints rates
PredictionReport(predictedDailyUsage, totalDataPoints, data, today) ==
  PredictionResult(
    predictedDailyUsage, totalDataPoints,
    IF data.premium.present /\ ~data.premium.unlimited
         /\ FLess(Zero, predictedDailyUsage)
    THEN Exhaustion(Floor(FDiv(Num(data.premium.remaining), predictedDailyUsage)),
                    FDiv(Num(DateMs(data.quota_reset_date_utc) - today),
                         Num(MsPerDay)))
    ELSE [daysUntilExhaustion |-> Null, willExhaustBeforeReset |-> FALSE])

\* variant: without rates a report of zero usage is made
PredictionFromNothing(usageData, data, today) ==
  IF Len(usageData) = 0
  THEN Some(PredictionResult(Zero, 0, [daysUntilExhaustion |-> Null,
                                       willExhaustBeforeReset |-> FALSE]))
  ELSE Some(PredictionReport(FDiv(SumUsage(usageData, Len(usageData)),
                                  Num(Len(usageData))),
                             Len(usageData), data, today))

\* _getWeightedPrediction once the usageData loop has run
PredictionFrom(usageData, data, today) ==
  IF Len(usageData) = 0 THEN Null
  ELSE Some(PredictionReport(FDiv(SumUsage(usageData, Len(usageData)),
                                  Num(Len(usageData))),
                             Len(usageData), data, today))

\* _getWeightedPrediction; today is the clock when it runs
GetWeightedPrediction(hist, data, today) ==
  IF Len(hist) < 2 THEN Null
  ELSE PredictionFrom(PredictionUsageData(hist, 1), data, today)

\* Math.ceil(n / 2) for a length n
CeilHalf(n) == (n + 1) \div 2

\* the value _getTrendPrediction returns; stable is Math.abs(percentDiff) < 10
TrendResult(recentBurnRate, overallBurnRate, difference, absPercentDiff, stable, dataPoints) ==
  [recentBurnRate |-> Round(recentBurnRate),
   overallBurnRate |-> Round(overallBurnRate),
   trend |-> IF stable THEN "stable"
             ELSE IF FLess(Zero, difference) THEN "accelerating"
             ELSE "slowing",
   trendIndicator |-> IF stable THEN 0 ELSE Round(absPercentDiff),
   dataPoints |-> dataPoints]

\* the trend part of _getTrendPrediction from percentDiff on
TrendOfPercent(recentBurnRate, overallBurnRate, difference, percentDiff, dataPoints) ==
  TrendResult(recentBurnRate, overallBurnRate, difference, FAbs(percentDiff),
              FLess(FAbs(percentDiff), Num(10)), dataPoints)

\* the trend part of _getTrendPrediction from difference on
TrendOfDifference(recentBurnRate, overallBurnRate, difference, dataPoints) ==
  TrendOfPercent(recentBurnRate, overallBurnRate, difference,
                 IF FLess(Zero, overallBurnRate)
                 THEN FMul(FDiv(difference, overallBurnRate), Num(100))
                 ELSE Zero,
                 dataPoints)

\* the report _getTrendPrediction makes of the two burn rates
TrendReport(recentBurnRate, overallBurnRate, dataPoints) ==
  TrendOfDifference(recentBurnRate, overallBurnRate,
                    FSub(recentBurnRate, overallBurnRate), dataPoints)

\* the burn rate of the recentCount newest rates
RecentBurnRate(usageData, recentCount) ==
  FDiv(SumUsage(usageData, recentCount), Num(recentCount))

\* variant: the recent window is half of the rates, without a minimum
RecentCountHalf(n) == CeilHalf(n)

\* recentCount: Math.max(2, Math.ceil(usageData.length / 2))
RecentCount(n) == IF CeilHalf(n) > 2 THEN CeilHalf(n) ELSE 2

\* _getTrendPrediction once the usageData loop has run
TrendFrom(usageData) ==
  IF Len(usageData) < 2 THEN Null
  ELSE Some(TrendReport(
              RecentBurnRate(usageData, RecentCount(Len(usageData))),
              FDiv(SumUsage(usageData, Len(usageData)), Num(Len(usageData))),
              Len(usageData)))

\* _getTrendPrediction
GetTrendPrediction(hist) ==
  IF Len(hist) < 3 THEN Null
  ELSE TrendFrom(TrendUsageData(hist, 1))

\* the usage patterns of the analytics model: a first remaining count and
\* refreshes a day apart that each find 30 (or 50) requests used, and the steps
\* that differ from the pattern, of which a run takes at most one
AnalyticsEntitlement == 300
RegularStep == [gap |-> MsPerDay, delta |-> -30]
UsagePatterns ==
  {[first |-> 150, step |-> RegularStep],
   [first |-> 300, step |-> RegularStep],
   [first |-> 200, step |-> [gap |-> MsPerDay, delta |-> -50]]}
OddSteps ==
  {[gap |-> 30 * 60 * 1000, delta |-> -30],
   [gap |-> MsPerHour, delta |-> -30],
   [gap |-> 7 * MsPerHour, delta |-> -10],
   [gap |-> 12 * MsPerHour, delta |-> -30],
   [gap |-> 72 * MsPerHour, delta |-> -30],
   [gap |-> 73 * MsPerHour, delta |-> -30],
   [gap |-> MsPerDay, delta |-> -31],
   [gap |-> MsPerDay, delta |-> 0],
   [gap |-> MsPerDay, delta |-> 30],
   [gap |-> 11 * MsPerHour, delta |-> 30]}

\* how long before the refresh the response's quota snapshot was taken
\* (timestamp_utc)
AsOfAges == {0, 2 * MsPerHour}

\* the sidebar is resolved and its first loads are pending
InitAnalytics ==
  /\ lastData = NoData
  /\ view = TRUE
  /\ html = "loading"
  /\ statusBarText = "loading"
  /\ bottomStatusBarText = "loading"
  /\ allTogglesOff = FALSE
  /\ cycles = <<"auth", "auth">>
  /\ now = 0
  /\ lastOp = Op("activate", FALSE, 0, FALSE)
  /\ warnReset = Undefined
  /\ warnCount = 0
  /\ warnedFor = {}
  /\ snapshotHistory = <<>>
  /\ globalState = [snapshotHistory |-> <<>>, premiumUsageAlert |-> Undefined]
  /\ recordLog = <<>>
  /\ args = [refreshes |-> 0, odd |-> FALSE, step |-> RegularStep]
  /\ result = NoResult

\* after gap milliseconds a refresh (the oldest pending load, or one started
\* by the refresh command) runs to its end without another handler in
\* between: the response, whose quota snapshot is age milliseconds old, is
\* recorded and the sidebar is rendered with the time until reset, the
\* comparisons, the trend and the prediction
\* variant: the view is rendered from the history as it was before the record
RenderedHistoryBeforeRecord(before, after) == before

\* the history that _getHtmlForWebview reads: _addSnapshot has run before
\* _updateWithData, so it is this._snapshotHistory after the record
RenderedHistory(before, after) == after

RefreshCompletes(gap, remaining, odd, age, step) ==
  /\ args.refreshes < MaxRefreshes
  /\ ~(args.odd /\ odd)
  /\ remaining >= 0
  /\ now' = now + gap
  /\ LET data == Data(Limited(remaining, AnalyticsEntitlement), ResetA)
         rec  == AddSnapshot(snapshotHistory, globalState,
                             remaining, AnalyticsEntitlement, now')
         sb   == UpdateStatusBar(rec.globalState, statusBarText, bottomStatusBarText,
                                 allTogglesOff, data)
     IN  /\ snapshotHistory' = rec.history
         /\ html' = UpdateWithData(view, html)
         /\ lastData' = data
         /\ globalState' = sb.globalState
         /\ statusBarText' = sb.statusBarText
         /\ bottomStatusBarText' = sb.bottomStatusBarText
         /\ WarnGhost(data, sb.warned)
         /\ lastOp' = Op("data", TRUE, remaining, sb.warned)
         /\ result' = IF view
                      THEN [view |-> "history",
                            data |-> data,
                            today |-> now',
                            asOfTime |-> now' - age,
                            timeUntilReset |->
                              CalculateDaysUntilReset(DateMs(data.quota_reset_date_utc),
                                                      now' - age),
                            comparisons |->
                              GetSnapshotComparisons(RenderedHistory(snapshotHistory, rec.history)),
                            trend |->
                              GetTrendPrediction(RenderedHistory(snapshotHistory, rec.history)),
                            prediction |->
                              GetWeightedPrediction(RenderedHistory(snapshotHistory, rec.history),
                                                    data, now')]
                      ELSE result
  /\ cycles' = IF cycles = <<>> THEN cycles ELSE Tail(cycles)
  /\ args' = [refreshes |-> args.refreshes + 1, odd |-> args.odd \/ odd, step |-> step]
  /\ UNCHANGED <<view, allTogglesOff, recordLog>>

\* the first response, which starts a usage pattern
FirstRefresh ==
  /\ ~lastData.loaded
  /\ \E pattern \in UsagePatterns, age \in AsOfAges :
       RefreshCompletes(MsPerHour, pattern.first, FALSE, age, pattern.step)

\* the next response of the regular pattern
RegularRefresh ==
  /\ lastData.loaded
  /\ \E age \in AsOfAges :
       RefreshCompletes(args.step.gap,
                        lastData.premium.remaining + args.step.delta, FALSE, age,
                        args.step)

\* a response that differs from the pattern
OddRefresh ==
  /\ lastData.loaded
  /\ \E step \in OddSteps, age \in AsOfAges :
       RefreshCompletes(step.gap, lastData.premium.remaining + step.delta, TRUE, age,
                        args.step)

\* the analytics model: a chain of refreshes, each recorded and rendered
NextAnalytics ==
  \/ FirstRefresh
  \/ RegularRefresh
  \/ OddRefresh

SpecAnalytics == InitAnalytics /\ [][NextAnalytics]_vars

\* ------------------------------------------------------------- properties
History == snapshotHistory

\* the steps of the handlers, told apart by what they leave in lastOp
RecordStep == lastOp'.op = "record" /\ now' = now
DataStep == lastOp'.op = "data" /\ Len(cycles') = Len(cycles) - 1

IsPrefix(p, s) == Len(p) <= Len(s) /\ p = SubSeq(s, 1, Len(p))

Capped == Len(History) <= MAX_SNAPSHOTS
NoAdjacentEqual ==
  \A k \in 1..(Len(History) - 1) :
    History[k].premium_remaining # History[k + 1].premium_remaining
NewestFirst ==
  \A k \in 1..(Len(History) - 1) : History[k].timestamp >= History[k + 1].timestamp
AllPositive == \A k \in 1..Len(History) : History[k].premium_remaining > 0

PercentUsedOf(data) ==
  RoundPercent(data.premium.entitlement - data.premium.remaining, data.premium.entitlement)

\* C1: the history never holds more than 10 entries, and it is always the (at
\* most) 10 most recent of the record calls whose values were positive and
\* differed from the call before, newest first: the 11th drops the oldest.
C1_CapKeepsTenMostRecent ==
  /\ Len(History) <= MAX_SNAPSHOTS
  /\ History = SubSeq(recordLog, 1, Min(Len(recordLog), MAX_SNAPSHOTS))

\* 15 differing records were made and the history is the 10 newest of them
C1_Witness ==
  /\ Len(recordLog) >= 15
  /\ Len(History) = MAX_SNAPSHOTS
  /\ lastOp.op = "record"

\* C2: a record of the value the newest entry already has leaves the history
\* as it is; a record of another positive value puts a new entry with that
\* value at index 0; no two adjacent entries have the same remaining.
C2_DedupAndPrepend ==
  /\ []NoAdjacentEqual
  /\ [][RecordStep =>
          LET r == lastOp'.remaining
              sameAsNewest == Len(History) > 0 /\ History[1].premium_remaining = r
          IN /\ sameAsNewest => History' = History
             /\ (r > 0 /\ ~sameAsNewest) =>
                   /\ Len(History') = Min(Len(History) + 1, MAX_SNAPSHOTS)
                   /\ History'[1].premium_remaining = r
                   /\ History'[1].timestamp = now]_vars

\* the value of the newest entry was recorded again, with entries below it
C2_Witness ==
  /\ lastOp.op = "record"
  /\ Len(History) >= 2
  /\ History[1].premium_remaining = lastOp.remaining
  /\ History[1].timestamp < now

\* C3: every entry has remaining > 0; a record call with remaining <= 0
\* changes nothing, and a refresh whose premium quota is unlimited or absent
\* does not call record.
C3_OnlyPositiveRecorded ==
  /\ []AllPositive
  /\ [][DataStep =>
          /\ (lastOp'.recordCalled /\ lastOp'.remaining <= 0) =>
                /\ History' = History
                /\ globalState'.snapshotHistory = globalState.snapshotHistory
          /\ (~lastData'.premium.present \/ lastData'.premium.unlimited) =>
                /\ ~lastOp'.recordCalled
                /\ History' = History]_vars

\* a refresh delivered a limited quota with nothing remaining to a non-empty history
C3_Witness ==
  /\ lastOp.op = "data"
  /\ lastOp.recordCalled
  /\ lastOp.remaining <= 0
  /\ Len(History) > 0

\* C4: with a clock that never goes back, timestamps do not increase from
\* index 0 to the end; a new entry is stamped with the current time, put at
\* index 0, and the entries before it keep their order below it.
C4_NewestFirst ==
  /\ []NewestFirst
  /\ [][(RecordStep /\ History' # History) =>
          /\ History'[1].timestamp = now
          /\ \A k \in 1..(Len(History') - 1) : History'[k + 1] = History[k]]_vars

\* entries recorded at different times
C4_Witness ==
  /\ Len(History) >= 3
  /\ History[1].timestamp > History[Len(History)].timestamp

\* C5: the list stored under the history key equals the history in memory
\* after every record, and a provider constructed after a restart starts with
\* the stored list.
C5_PersistedEqualsMemory ==
  /\ [](globalState.snapshotHistory = History)
  /\ [][lastOp'.op = "activate" => History' = globalState.snapshotHistory]_vars

\* a restart that found a full stored history
C5_Witness ==
  /\ lastOp.op = "activate"
  /\ Len(History) = MAX_SNAPSHOTS
  /\ Len(recordLog) > MAX_SNAPSHOTS

\* C6: only record changes the history: a step changes it only if it called
\* record, and then the new history is one new entry followed by a prefix of
\* the old one, entries unmodified; changes of the settings, failed refreshes
\* and restarts leave it as it is.
C6_OnlyRecordChangesHistory ==
  [][/\ History' # History =>
          /\ lastOp'.op \in {"data", "record"}
          /\ lastOp'.recordCalled
          /\ Len(History') >= 1
          /\ IsPrefix(Tail(History'), History)
     /\ lastOp'.op \in {"config", "error", "activate"} => History' = History]_vars

\* the settings changed while data was cached and the history was full
C6_Witness ==
  /\ lastOp.op = "config"
  /\ lastData.loaded
  /\ Len(History) = MAX_SNAPSHOTS

\* C7 as claimed: at most one refresh cycle is in flight at any time.
C7_AtMostOneInFlight == Len(cycles) <= 1

\* C7 as amended: refresh cycles are not serialised; every step starts one
\* cycle, moves one cycle to its next await or ends one cycle, and leaves the
\* other cycles in flight as they were (a restart of the host ends them all).
C7_CyclesRunIndependently ==
  [][\/ cycles' = cycles
     \/ cycles' = Append(cycles, "auth")
     \/ \E i \in 1..Len(cycles) :
          \/ cycles[i] = "auth" /\ cycles' = [cycles EXCEPT ![i] = "fetch"]
          \/ cycles[i] = "fetch" /\ cycles' = [cycles EXCEPT ![i] = "json"]
          \/ cycles' = RemoveAt(cycles, i)
     \/ lastOp'.op = "activate" /\ cycles' = <<"auth">>]_vars

\* two refresh cycles in flight, the later one further on than the earlier one
C7_Witness ==
  /\ Len(cycles) >= 2
  /\ cycles[1] = "auth"
  /\ cycles[2] = "json"

\* C8: under every interleaving of overlapping refresh cycles a cycle adds at
\* most one entry, in one step, and the history stays capped, free of adjacent
\* equal values and newest first.
C8_InvariantsUnderOverlap ==
  /\ [](Capped /\ NoAdjacentEqual /\ NewestFirst)
  /\ [][/\ Len(History') <= Len(History) + 1
        /\ History' # History => DataStep]_vars

\* a cycle recorded into a full history while another cycle was still in flight
C8_Witness ==
  /\ lastOp.op = "data"
  /\ lastOp.recordCalled
  /\ Len(cycles) >= 1
  /\ cycles[1] = "json"
  /\ Len(History) = MAX_SNAPSHOTS
  /\ History[1].premium_remaining = lastOp.remaining
  /\ History[1].timestamp > History[2].timestamp

\* C9: while the reset date of the data stays the same, over refreshes,
\* changes of the settings and restarts, the warning is shown at most once.
C9_WarnedAtMostOncePerReset == warnCount <= 1

\* a refresh at 85% or more, with the status bar shown, that did not warn
\* because the warning was already shown for this reset date
C9_Witness ==
  /\ lastOp.op = "data"
  /\ ~lastOp.warned
  /\ ~allTogglesOff
  /\ lastData.loaded
  /\ PercentUsedOf(lastData) >= premiumUsageAlertThreshold
  /\ lastData.quota_reset_date_utc = warnReset
  /\ warnCount = 1

\* C10 as claimed: a refresh that delivers a limited premium quota used to 85%
\* or more, when no warning has been shown for its reset date, shows the
\* warning.
C10_WarnsOnReachingThreshold ==
  [][(/\ DataStep
      /\ lastData'.premium.present
      /\ ~lastData'.premium.unlimited
      /\ PercentUsedOf(lastData') >= premiumUsageAlertThreshold
      /\ lastData'.quota_reset_date_utc \notin warnedFor)
     => lastOp'.warned]_vars

\* what the code does: the same, provided the three status bar toggles are not
\* all off
C10_WarnsUnlessAllTogglesOff ==
  [][(/\ DataStep
      /\ lastData'.premium.present
      /\ ~lastData'.premium.unlimited
      /\ PercentUsedOf(lastData') >= premiumUsageAlertThreshold
      /\ lastData'.quota_reset_date_utc \notin warnedFor
      /\ ~allTogglesOff)
     => lastOp'.warned]_vars

\* ------------------------------------------------------- pacing properties
Rendered == result.view # "none"

\* whole hours from the as-of time to the reset date, rounded down
WholeHours(a) == (a.resetDate - a.asOfTime) \div MsPerHour

\* C11: for every reset date and as-of time, also with the reset in the past,
\* hours is between 0 and 23 and days * 24 + hours is the number of whole
\* hours from the as-of time to the reset date, rounded down
C11_DaysAndHoursAreWholeHours ==
  Rendered =>
    /\ result.timeUntilReset.hours \in 0..23
    /\ result.timeUntilReset.days * 24 + result.timeUntilReset.hours = WholeHours(result.args)

\* hours stays between 0 and 23, and days and hours together are the whole
\* hours or one hour less
C11_HoursInRangeAndAtMostOneShort ==
  Rendered =>
    /\ result.timeUntilReset.hours \in 0..23
    /\ WholeHours(result.args) - (result.timeUntilReset.days * 24 + result.timeUntilReset.hours)
         \in {0, 1}

\* floor((a * b) / (c * d)) for naturals a, b and positive c, d, without rounding
ExactFloor(a, b, c, d) ==
  BigVal(BigDivMod(BigMul(BigOf(a), BigOf(b)), BigMul(BigOf(c), BigOf(d))).q)

\* a sidebar render of a quota that is not used up, with the reset ahead
PacingShown ==
  /\ Rendered
  /\ result.view = "sidebar"
  /\ result.args.remaining >= 0
  /\ result.args.resetDate > result.args.asOfTime

DiffMs == result.args.resetDate - result.args.asOfTime

\* C12: for remaining >= 0 and totalDays > 0 the figures are
\* perDay = floor(remaining / totalDays), perWeek = floor(remaining / max(1, totalDays / 7)),
\* workingDays = floor(totalDays * 5 / 7), perWorkday = floor(remaining / workingDays),
\* perWorkHour = floor(remaining / (workingDays * 8)) and
\* floor(remaining / m / totalDays) for the multipliers m = 0.33, 1 and 3,
\* totalDays being the time from the as-of time to the reset date in days
C12_FiguresAreTheFloors ==
  PacingShown =>
    LET remaining == result.args.remaining
        pacing    == result.pacing
    IN  /\ pacing.allowedPerDay = ExactFloor(remaining, MsPerDay, DiffMs, 1)
        /\ pacing.allowedPerWeek =
             IF DiffMs <= 7 * MsPerDay THEN remaining
             ELSE ExactFloor(remaining * 7, MsPerDay, DiffMs, 1)
        /\ pacing.workingDays = ExactFloor(5, DiffMs, 7, MsPerDay)
        /\ pacing.workingDays > 0 =>
             /\ pacing.allowedPerWorkDay = remaining \div pacing.workingDays
             /\ pacing.allowedPerHour = remaining \div (pacing.workingDays * 8)
        /\ pacing.budget033 = ExactFloor(remaining * 100, MsPerDay, 33, DiffMs)
        /\ pacing.budget1 = ExactFloor(remaining, MsPerDay, DiffMs, 1)
        /\ pacing.budget3 = ExactFloor(remaining, MsPerDay, 3, DiffMs)

\* the example of C12: remaining 700 with the reset 7 days ahead gives
\* 100 per day, 700 per week, 5 working days, 140 per work day and 17 per work hour
C12_ExampleFigures ==
  (PacingShown /\ result.args.remaining = 700 /\ DiffMs = 7 * MsPerDay) =>
    /\ result.pacing.allowedPerDay = 100
    /\ result.pacing.allowedPerWeek = 700
    /\ result.pacing.workingDays = 5
    /\ result.pacing.allowedPerWorkDay = 140
    /\ result.pacing.allowedPerHour = 17

C12_ExampleRendered ==
  PacingShown /\ result.args.remaining = 700 /\ DiffMs = 7 * MsPerDay

\* every figure of C12 is the exact floor or next to it
C12_FiguresWithinOne ==
  PacingShown =>
    LET remaining == result.args.remaining
        pacing    == result.pacing
        near(x, y) == x - y \in {-1, 0, 1}
    IN  /\ near(pacing.allowedPerDay, ExactFloor(remaining, MsPerDay, DiffMs, 1))
        /\ near(pacing.allowedPerWeek,
                IF DiffMs <= 7 * MsPerDay THEN remaining
                ELSE ExactFloor(remaining * 7, MsPerDay, DiffMs, 1))
        /\ pacing.workingDays = ExactFloor(5, DiffMs, 7, MsPerDay)
        /\ near(pacing.budget033, ExactFloor(remaining * 100, MsPerDay, 33, DiffMs))
        /\ near(pacing.budget3, ExactFloor(remaining, MsPerDay, 3, DiffMs))

Max(a, b) == IF a > b THEN a ELSE b

\* C13: allowedPerWeek = floor(remaining / weeksRemaining) with
\* weeksRemaining = max(1, floor(daysUntilReset / 7))
C13_WeeklyUsesWholeWeeks ==
  PacingShown =>
    result.pacing.allowedPerWeek =
      result.args.remaining \div Max(1, result.timeUntilReset.days \div 7)

RowLabels(rows) == {rows[i].label : i \in 1..Len(rows)}

\* C14: when workingDays = floor(totalDays * 5 / 7) is 0, the per-workday and
\* per-work-hour figures are left out instead of being shown as a number
C14_WorkdayFiguresOmittedWithoutWorkingDays ==
  (PacingShown /\ ExactFloor(5, DiffMs, 7, MsPerDay) = 0) =>
    RowLabels(result.pacing.rows) \cap {"Work day average:", "Work hour average:"} = {}

\* C15: when totalDays <= 0 neither the sidebar nor the Markdown summary has a
\* per-day, per-week, per-workday, per-work-hour or multiplier figure: nothing
\* of the pacing is rendered, so no figure is shown as zero or negative
C15_NoFiguresOnceResetHasPassed ==
  (Rendered /\ result.args.resetDate <= result.args.asOfTime) =>
    result.pacing.rows = <<>>

C15_Witness ==
  /\ Rendered
  /\ result.view = "sidebar"
  /\ result.args.resetDate < result.args.asOfTime
  /\ result.args.remaining = 700
  /\ result.pacing.rows = <<>>

\* x <= remaining / totalDays, without rounding
AtMostDailyShare(x) ==
  BigCmp(BigMul(BigOf(x), BigOf(DiffMs)),
         BigMul(BigOf(result.args.remaining), BigOf(MsPerDay))) <= 0

\* C16 as stated, its second half: every pacing figure (perDay, perWeek,
\* perWorkday, perWorkHour and the multiplier budgets) is at most
\* remaining / totalDays
C16_EveryFigureAtMostDailyShare ==
  PacingShown =>
    /\ AtMostDailyShare(result.pacing.allowedPerDay)
    /\ AtMostDailyShare(result.pacing.allowedPerWeek)
    /\ AtMostDailyShare(result.pacing.allowedPerWorkDay)
    /\ AtMostDailyShare(result.pacing.allowedPerHour)
    /\ AtMostDailyShare(result.pacing.budget033)
    /\ AtMostDailyShare(result.pacing.budget1)
    /\ AtMostDailyShare(result.pacing.budget3)

C16_DailyFiguresBounded ==
  PacingShown =>
    /\ AtMostDailyShare(result.pacing.allowedPerDay)
    /\ AtMostDailyShare(result.pacing.allowedPerHour)
    /\ AtMostDailyShare(result.pacing.budget1)
    /\ AtMostDailyShare(result.pacing.budget3)

C16_PerDayStep ==
  (/\ PacingShown
   /\ PacingShown'
   /\ result'.args.remaining = result.args.remaining
   /\ DiffMs' <= DiffMs)
  => result'.pacing.allowedPerDay >= result.pacing.allowedPerDay

\* C16, amended: for a fixed remaining >= 0, perDay does not increase as
\* totalDays increases, and perDay, perWorkHour and the 1x and 3x budgets are
\* at most remaining / totalDays (perWeek, perWorkday and the 0.33x budget
\* can be larger)
C16_PerDayMonotoneDailyFiguresBounded ==
  []C16_DailyFiguresBounded /\ [][C16_PerDayStep]_vars

\* a later render whose weekly, workday and 0.33x figures exceed the daily share
C16_Witness ==
  /\ PacingShown
  /\ result.args.remaining = 700
  /\ result.args.asOfTime > MsPerHour
  /\ ~AtMostDailyShare(result.pacing.allowedPerWeek)
  /\ ~AtMostDailyShare(result.pacing.allowedPerWorkDay)
  /\ ~AtMostDailyShare(result.pacing.budget033)
  /\ AtMostDailyShare(result.pacing.allowedPerDay)

\* ------------------------------------------------------ analytics properties

\* the sidebar shows reports computed from the stored history
Reported == result.view = "history"

\* the number of neighbouring pairs of hist from index i on that lie between
\* one hour and 72 hours apart and between which the remaining count fell
RECURSIVE ValidIntervals(_, _)
ValidIntervals(hist, i) ==
  IF i > Len(hist) - 1 THEN 0
  ELSE LET apart == hist[i].timestamp - hist[i + 1].timestamp
           fell  == hist[i + 1].premium_remaining > hist[i].premium_remaining
       IN  (IF apart >= MsPerHour /\ apart <= 72 * MsPerHour /\ fell THEN 1 ELSE 0)
             + ValidIntervals(hist, i + 1)

\* C17: with fewer than two stored entries both comparisons are null, and with
\* fewer than three entries or fewer than two valid consumption intervals the
\* trend is null
C17_TooFewEntriesGiveNull ==
  Reported =>
    /\ (Len(snapshotHistory) < 2 =>
          /\ result.comparisons.sinceLastRefresh = Null
          /\ result.comparisons.sinceYesterday = Null)
    /\ (Len(snapshotHistory) < 3 \/ ValidIntervals(snapshotHistory, 1) < 2 =>
          result.trend = Null)

\* three or more entries with fewer than two valid intervals have been reported on
C17_Witness ==
  /\ Reported
  /\ Len(snapshotHistory) >= 3
  /\ ValidIntervals(snapshotHistory, 1) < 2
  /\ result.trend = Null


\* C18: with two or more stored entries the change since the last refresh is
\* the newest entry's remaining count minus the second newest entry's
C18_SinceLastRefreshIsNewestMinusPrevious ==
  Reported /\ Len(snapshotHistory) >= 2 =>
    result.comparisons.sinceLastRefresh =
      Some(snapshotHistory[1].premium_remaining - snapshotHistory[2].premium_remaining)

\* a fall of the remaining count between the two newest entries has been reported
C18_Witness ==
  /\ Reported
  /\ Len(snapshotHistory) >= 2
  /\ snapshotHistory[1].premium_remaining < snapshotHistory[2].premium_remaining
  /\ result.comparisons.sinceLastRefresh = Some(-30)


\* the entries of hist that are at least 12 hours older than time t
AtLeastHalfADayOld(hist, t) ==
  {i \in 1..Len(hist) : hist[i].timestamp <= t - 12 * MsPerHour}

\* how far entry i of hist is from 24 hours before time t
FromADayBefore(hist, i, t) == Abs(hist[i].timestamp - (t - MsPerDay))

\* the entries at least 12 hours older than t that no other such entry beats
\* in closeness to 24 hours before t
ClosestToADayBefore(hist, t) ==
  {i \in AtLeastHalfADayOld(hist, t) :
     \A j \in AtLeastHalfADayOld(hist, t) :
       FromADayBefore(hist, i, t) <= FromADayBefore(hist, j, t)}

\* the reported change since yesterday is the one that "now" = t gives
SinceYesterdayAsOf(t) ==
  IF AtLeastHalfADayOld(snapshotHistory, t) = {}
  THEN result.comparisons.sinceYesterday = Null
  ELSE \E i \in ClosestToADayBefore(snapshotHistory, t) :
         result.comparisons.sinceYesterday =
           Some(snapshotHistory[1].premium_remaining - snapshotHistory[i].premium_remaining)

\* C19 as stated, "now" being the time of the report: the change since
\* yesterday is the newest remaining count minus that of the entry closest to
\* 24 hours before now among the entries at least 12 hours old, however old,
\* and null when there is none
C19_SinceYesterdayFromTheClock ==
  Reported /\ Len(snapshotHistory) >= 2 => SinceYesterdayAsOf(now)

\* C19, amended: the same with the newest entry's timestamp in the place of
\* now, the newer entry being taken when two are equally close
C19_SinceYesterdayFromNewestEntry ==
  Reported /\ Len(snapshotHistory) >= 2 =>
    LET newest  == snapshotHistory[1].timestamp
        closest == ClosestToADayBefore(snapshotHistory, newest)
    IN  /\ SinceYesterdayAsOf(newest)
        /\ closest # {} =>
             \E i \in closest :
               /\ \A j \in closest : i <= j
               /\ result.comparisons.sinceYesterday =
                    Some(snapshotHistory[1].premium_remaining
                           - snapshotHistory[i].premium_remaining)

\* a report made a day after the newest entry was stored compares with an
\* entry that is more than 48 hours older than the newest one
C19_Witness ==
  /\ Reported
  /\ Len(snapshotHistory) >= 2
  /\ now > snapshotHistory[1].timestamp
  /\ result.comparisons.sinceYesterday # Null
  /\ \A i \in AtLeastHalfADayOld(snapshotHistory, snapshotHistory[1].timestamp) :
       snapshotHistory[i].timestamp < snapshotHistory[1].timestamp - 48 * MsPerHour


\* the greatest common divisor and the least common multiple of a and b > 0
RECURSIVE Gcd(_, _)
Gcd(a, b) == IF b = 0 THEN a ELSE Gcd(b, a % b)

Lcm(a, b) == (a \div Gcd(a, b)) * b

\* the neighbouring pairs of hist that count as consumption: the index of the
\* newer entry of each pair
ValidPairs(hist) ==
  {i \in 1..(Len(hist) - 1) :
     LET apart == hist[i].timestamp - hist[i + 1].timestamp
     IN  /\ apart >= MsPerHour
         /\ apart <= 72 * MsPerHour
         /\ hist[i + 1].premium_remaining > hist[i].premium_remaining}

\* the daily rate of pair i as a fraction num / den: requests used, per hours
\* apart, times 24
RateOf(hist, i) ==
  LET apart == hist[i].timestamp - hist[i + 1].timestamp
      used  == hist[i + 1].premium_remaining - hist[i].premium_remaining
      g     == Gcd(apart, MsPerHour)
  IN  [num |-> used * 24 * (MsPerHour \div g), den |-> apart \div g]

\* a common denominator of the rates of the pairs in S
RECURSIVE CommonDen(_, _)
CommonDen(hist, S) ==
  IF S = {} THEN 1
  ELSE LET i == CHOOSE x \in S : TRUE
       IN  Lcm(RateOf(hist, i).den, CommonDen(hist, S \ {i}))

\* the sum of the rates of the pairs in S, over the denominator den
RECURSIVE SumOver(_, _, _)
SumOver(hist, S, den) ==
  IF S = {} THEN 0
  ELSE LET i == CHOOSE x \in S : TRUE
       IN  RateOf(hist, i).num * (den \div RateOf(hist, i).den)
             + SumOver(hist, S \ {i}, den)

\* the mean of the valid daily rates of hist, rounded to the nearest integer,
\* a half going up
RoundedMeanRate(hist) ==
  LET S   == ValidPairs(hist)
      n   == Cardinality(S)
      den == CommonDen(hist, S)
      sum == SumOver(hist, S, den)
  IN  (2 * sum + n * den) \div (2 * n * den)

\* the confidence that n rates give
ConfidenceOf(n) == IF n >= 7 THEN "high" ELSE IF n >= 3 THEN "medium" ELSE "low"

\* the history of the example: two pairs a day apart, 30 requests used in each,
\* 90 remaining
ExampleOfTwoPoints ==
  /\ Len(snapshotHistory) = 3
  /\ ValidPairs(snapshotHistory) = {1, 2}
  /\ \A i \in {1, 2} : RateOf(snapshotHistory, i).num = 30 * RateOf(snapshotHistory, i).den
  /\ result.data.premium.remaining = 90

Predicted == Reported /\ result.prediction # Null

\* floor(remaining / mean) for the mean of the valid daily rates of hist, which
\* is above 0
DaysAtMeanRate(hist, remaining) ==
  LET S   == ValidPairs(hist)
      den == CommonDen(hist, S)
  IN  (remaining * Cardinality(S) * den) \div SumOver(hist, S, den)

C22_ExhaustsBeforeResetByPacing ==
  Predicted =>
    LET report == result.prediction[1]
    IN  IF report.daysUntilExhaustion = Null
        THEN ~report.willExhaustBeforeReset
        ELSE report.willExhaustBeforeReset
               <=> FLess(Num(report.daysUntilExhaustion[1]),
                         result.timeUntilReset.totalDays)

\* the same with the days from the time of the report to the reset
C22_ExhaustsBeforeResetByClock ==
  Predicted =>
    LET report == result.prediction[1]
    IN  IF report.daysUntilExhaustion = Null
        THEN ~report.willExhaustBeforeReset
        ELSE report.willExhaustBeforeReset
               <=> FLess(Num(report.daysUntilExhaustion[1]),
                         CalculateDaysUntilReset(DateMs(result.data.quota_reset_date_utc),
                                                 result.today).totalDays)


\* no neighbouring pair of hist shows that requests were used
NoConsumption(hist) ==
  \A i \in 1..(Len(hist) - 1) : hist[i + 1].premium_remaining <= hist[i].premium_remaining

\* C23 as stated: for a history of two or more entries none of whose intervals
\* shows consumption a prediction is still reported, with its exhaustion
\* fields left unresolved and no verdict
C23_ReportWithoutConsumption ==
  Reported /\ Len(snapshotHistory) >= 2 /\ NoConsumption(snapshotHistory) =>
    /\ result.prediction # Null
    /\ result.prediction[1].daysUntilExhaustion = Null
    /\ ~result.prediction[1].willExhaustBeforeReset

\* C23, amended: for a history without a valid consumption interval no
\* prediction is reported at all, so that no verdict is shown
C23_NoPredictionWithoutConsumption ==
  Reported /\ ValidPairs(snapshotHistory) = {} => result.prediction = Null

\* a history of two or more entries without consumption has been reported on
C23_Witness ==
  /\ Reported
  /\ Len(snapshotHistory) >= 2
  /\ NoConsumption(snapshotHistory)
  /\ result.prediction = Null


\* the valid pairs of hist from index i on, newest first
RECURSIVE ValidPairsFrom(_, _)
ValidPairsFrom(hist, i) ==
  IF i > Len(hist) - 1 THEN <<>>
  ELSE (IF i \in ValidPairs(hist) THEN <<i>> ELSE <<>>) \o ValidPairsFrom(hist, i + 1)

\* rates are the daily rates of the valid pairs of hist, newest first, each
\* the nearest Number or next to it
RatesOfValidPairs(rates, hist) ==
  LET pairs == ValidPairsFrom(hist, 1)
  IN  /\ Len(rates) = Len(pairs)
      /\ \A k \in 1..Len(pairs) :
           Round(FMul(rates[k], Num(RateOf(hist, pairs[k]).den)))
             = RateOf(hist, pairs[k]).num

\* C24: the trend and the prediction derive the same list of daily rates from
\* the same history: the rate (older remaining - newer remaining) / hours
\* apart * 24 of every neighbouring pair that is 1 to 72 hours apart and shows
\* consumption, every other pair being left out
C24_TrendAndPredictionShareRates ==
  Reported =>
    /\ TrendUsageData(snapshotHistory, 1) = PredictionUsageData(snapshotHistory, 1)
    /\ RatesOfValidPairs(PredictionUsageData(snapshotHistory, 1), snapshotHistory)

\* a history with a pair that shows consumption and is left out for being less
\* than an hour or more than 72 hours apart, next to pairs that count
C24_Witness ==
  /\ Reported
  /\ ValidPairs(snapshotHistory) # {}
  /\ \E i \in 1..(Len(snapshotHistory) - 1) :
       /\ i \notin ValidPairs(snapshotHistory)
       /\ snapshotHistory[i + 1].premium_remaining > snapshotHistory[i].premium_remaining
  /\ Len(TrendUsageData(snapshotHistory, 1)) = Cardinality(ValidPairs(snapshotHistory))

\* the indices of a sequence of pairs as a set
PairSet(pairs) == {pairs[k] : k \in 1..Len(pairs)}

\* how many of n rates count as recent
RecentCountOf(n) == IF (n + 1) \div 2 > 2 THEN (n + 1) \div 2 ELSE 2

\* the n valid daily rates of hist as sums over one denominator: all of them,
\* and the RecentCountOf(n) newest
RateSums(hist) ==
  LET pairs == ValidPairsFrom(hist, 1)
      n     == Len(pairs)
      m     == RecentCountOf(n)
      den   == CommonDen(hist, PairSet(pairs))
  IN  [n |-> n, m |-> m, den |-> den,
       overall |-> SumOver(hist, PairSet(pairs), den),
       recent  |-> SumOver(hist, PairSet(SubSeq(pairs, 1, m)), den)]

\* ten times the distance of the recent mean from the overall mean, and the
\* overall mean, over one denominator: the first is less than the second
\* exactly when the means differ by less than 10% of the overall mean
TenTimesDistance(sums) == 10 * Abs(sums.recent * sums.n - sums.overall * sums.m)
OverallScaled(sums) == sums.overall * sums.m

\* the trend that the rule gives for the rates of hist
TrendByRule(hist) ==
  LET sums == RateSums(hist)
  IN  IF TenTimesDistance(sums) < OverallScaled(sums) THEN "stable"
      ELSE IF sums.recent * sums.n > sums.overall * sums.m THEN "accelerating"
      ELSE "slowing"

\* the reported rates are the means of the rates of hist, rounded to the
\* nearest integer
RatesAreRoundedMeans(trend, hist) ==
  LET sums == RateSums(hist)
  IN  /\ trend.overallBurnRate
           = (2 * sums.overall + sums.n * sums.den) \div (2 * sums.n * sums.den)
      /\ trend.recentBurnRate
           = (2 * sums.recent + sums.m * sums.den) \div (2 * sums.m * sums.den)

\* three entries a day apart with 100, 150 and 200 remaining, newest first
ExampleOfSteadyUse(hist) ==
  /\ Len(hist) = 3
  /\ hist[1].premium_remaining = 100
  /\ hist[2].premium_remaining = 150
  /\ hist[3].premium_remaining = 200
  /\ \A i \in 1..2 : hist[i].timestamp - hist[i + 1].timestamp = MsPerDay

\* C25: with two or more valid rates the reported overall rate is the mean of
\* all rates and the recent rate the mean of the max(2, ceil(n/2)) newest, each
\* as a whole number; the trend is stable when the two means differ by less
\* than 10% of the overall mean, else accelerating when the recent mean is the
\* higher and slowing when it is the lower; entries of 100, 150 and 200 a day
\* apart give 50 a day for both and a stable trend
C25_TrendByTenPercentRule ==
  (Reported /\ Len(ValidPairsFrom(snapshotHistory, 1)) >= 2) =>
    /\ result.trend # Null
    /\ RatesAreRoundedMeans(result.trend[1], snapshotHistory)
    /\ result.trend[1].trend = TrendByRule(snapshotHistory)
    /\ ExampleOfSteadyUse(snapshotHistory) =>
         /\ result.trend[1].recentBurnRate = 50
         /\ result.trend[1].overallBurnRate = 50
         /\ result.trend[1].trend = "stable"

\* the same with the trend left open where the means differ by exactly 10%
C25_TrendByRuleOffTheBoundary ==
  (Reported /\ Len(ValidPairsFrom(snapshotHistory, 1)) >= 2) =>
    /\ result.trend # Null
    /\ RatesAreRoundedMeans(result.trend[1], snapshotHistory)
    /\ TenTimesDistance(RateSums(snapshotHistory)) # OverallScaled(RateSums(snapshotHistory))
         => result.trend[1].trend = TrendByRule(snapshotHistory)
    /\ ExampleOfSteadyUse(snapshotHistory) =>
         /\ result.trend[1].recentBurnRate = 50
         /\ result.trend[1].overallBurnRate = 50
         /\ result.trend[1].trend = "stable"

\* the example of C25 has been reported
C25_ExampleReported == Reported /\ ExampleOfSteadyUse(snapshotHistory)

\* rates of 50, 25 and 50 a day: the means differ by exactly 10% and the trend
\* is reported stable
C25_StableOnTheBoundary ==
  /\ Reported
  /\ Len(ValidPairsFrom(snapshotHistory, 1)) = 3
  /\ TenTimesDistance(RateSums(snapshotHistory)) = OverallScaled(RateSums(snapshotHistory))
  /\ result.trend # Null
  /\ result.trend[1].trend = "stable"

\* the refresh that ran last was successful and fetched a limited premium
\* quota with requests remaining
FetchedRemaining ==
  /\ lastOp.op = "data"
  /\ lastData.loaded
  /\ lastData.premium.present
  /\ ~lastData.premium.unlimited
  /\ lastData.premium.remaining > 0

\* C26: after a successful refresh that fetched a limited premium quota with
\* requests remaining, record has been called, the newest history entry holds
\* the remaining count just fetched, and the comparison, the trend and the
\* prediction shown are those of the history with that entry in it
C26_ReportsIncludeOwnObservation ==
  (Reported /\ FetchedRemaining) =>
    /\ lastOp.recordCalled
    /\ snapshotHistory # <<>>
    /\ snapshotHistory[1].premium_remaining = lastData.premium.remaining
    /\ globalState.snapshotHistory = snapshotHistory
    /\ result.data = lastData
    /\ result.comparisons = GetSnapshotComparisons(snapshotHistory)
    /\ result.trend = GetTrendPrediction(snapshotHistory)
    /\ result.prediction = GetWeightedPrediction(snapshotHistory, lastData, now)
    /\ Len(snapshotHistory) >= 2 =>
         result.comparisons.sinceLastRefresh
           = Some(lastData.premium.remaining - snapshotHistory[2].premium_remaining)

\* a refresh has stored its observation as the newest of three or more
\* entries, and the comparison, the trend and the prediction are shown
C26_Witness ==
  /\ Reported
  /\ FetchedRemaining
  /\ Len(snapshotHistory) >= 3
  /\ snapshotHistory[1].timestamp = now
  /\ result.comparisons.sinceLastRefresh = Some(-30)
  /\ result.trend # Null
  /\ result.prediction # Null

\* the same under overlapping refreshes: whenever the handler that ran last
\* was a successful refresh that fetched requests remaining, the newest entry,
\* in memory and persisted, holds the remaining count of the cached data
C26_NewestEntryIsFetchedUnderOverlap ==
  FetchedRemaining =>
    /\ lastOp.recordCalled
    /\ snapshotHistory # <<>>
    /\ snapshotHistory[1].premium_remaining = lastData.premium.remaining
    /\ globalState.snapshotHistory = snapshotHistory

\* a step in which a refresh cycle ends in _updateWithError
ErrorStep == lastOp'.op = "error" /\ Len(cycles') = Len(cycles) - 1

\* C27: a refresh that fails (no session, a rejected await, a response that is
\* not OK) leaves the history, the persisted history and the cached data as
\* they were, sets the text of both status bar items to the error text, shows
\* the error page if there is a view, and ends its cycle without disturbing
\* the cycles that are still in flight
C27_FailedRefreshKeepsState ==
  [][ErrorStep =>
       /\ snapshotHistory' = snapshotHistory
       /\ globalState' = globalState
       /\ lastData' = lastData
       /\ statusBarText' = "error"
       /\ bottomStatusBarText' = "error"
       /\ html' = (IF view THEN "error" ELSE html)
       /\ \E i \in 1..Len(cycles) : cycles' = RemoveAt(cycles, i)]_vars

\* a refresh failed after an earlier one had stored an entry and cached data,
\* while another refresh was still in flight
C27_Witness ==
  /\ lastOp.op = "error"
  /\ statusBarText = "error"
  /\ bottomStatusBarText = "error"
  /\ snapshotHistory # <<>>
  /\ globalState.snapshotHistory = snapshotHistory
  /\ lastData.loaded
  /\ cycles # <<>>

\* C28: responses take effect in the order they are processed, whatever the
\* order the refreshes were triggered in: the refresh that completes, also one
\* that a later-triggered refresh has completed ahead of, replaces the cached
\* data with its own and puts the entry it records at the head of the history,
\* stamped with the time of processing, above the entries recorded before it;
\* nothing but a completing refresh or a restart changes the cached data, so
\* once no refresh is in flight the cached data is that of the refresh that
\* completed last
C28_CompletionOrderDecides ==
  [][/\ DataStep =>
          /\ lastData'.loaded
          /\ lastData'.premium.remaining = lastOp'.remaining
          /\ lastOp'.recordCalled = (lastData'.premium.present /\ ~lastData'.premium.unlimited)
          /\ History' # History =>
               /\ History'[1].premium_remaining = lastOp'.remaining
               /\ History'[1].timestamp = now
               /\ IsPrefix(Tail(History'), History)
     /\ lastData' # lastData => (DataStep \/ lastOp'.op = "activate")]_vars

\* no refresh is in flight any more, and the one that completed last had been
\* triggered before one that completed earlier; its entry is the newest, above
\* the entry of the other, and its data is the cached data
C28_Witness ==
  /\ cycles = <<>>
  /\ lastOp.op = "data"
  /\ lastOp.late
  /\ Len(History) >= 2
  /\ History[1].premium_remaining = lastOp.remaining
  /\ lastData.premium.remaining = History[1].premium_remaining

\* C29: the two newest entries of a history built by record calls never hold
\* the same remaining count, so the change since the last refresh, when there
\* is one, is never 0; the change since yesterday can be 0
C29_SinceLastRefreshNeverZero ==
  /\ Len(snapshotHistory) >= 2 =>
       snapshotHistory[1].premium_remaining # snapshotHistory[2].premium_remaining
  /\ (Reported /\ result.comparisons.sinceLastRefresh # Null) =>
       /\ Len(snapshotHistory) >= 2
       /\ result.comparisons.sinceLastRefresh # Some(0)

\* a refresh found the remaining count of the refresh before it once more, so
\* nothing was recorded, and the comparison shown is that of the two entries
\* recorded before, which differ
C29_Witness ==
  /\ Reported
  /\ FetchedRemaining
  /\ snapshotHistory[1].timestamp < now
  /\ result.comparisons.sinceLastRefresh = Some(-30)

\* the change since yesterday is 0 while the change since the last refresh is not
C29_NoChangeSinceYesterday ==
  /\ Reported
  /\ result.comparisons.sinceYesterday = Some(0)
  /\ result.comparisons.sinceLastRefresh = Some(30)

\* the two newest valid rates of hist differ
TwoRatesDiffer(hist) ==
  LET pairs == ValidPairsFrom(hist, 1)
  IN  RateOf(hist, pairs[1]).num * RateOf(hist, pairs[2]).den
        # RateOf(hist, pairs[2]).num * RateOf(hist, pairs[1]).den

\* C30: with exactly two valid rates the recent window covers both, so the
\* recent rate equals the overall rate and the trend is stable whatever the
\* rates are; a trend that is not stable comes from three or more valid rates
\* and so from four or more history entries
C30_TwoRatesAreAlwaysStable ==
  (Reported /\ result.trend # Null) =>
    /\ Len(ValidPairsFrom(snapshotHistory, 1)) = 2 =>
         /\ result.trend[1].dataPoints = 2
         /\ result.trend[1].recentBurnRate = result.trend[1].overallBurnRate
         /\ result.trend[1].trend = "stable"
         /\ result.trend[1].trendIndicator = 0
    /\ result.trend[1].trend # "stable" =>
         /\ Len(ValidPairsFrom(snapshotHistory, 1)) >= 3
         /\ result.trend[1].dataPoints >= 3
         /\ Len(snapshotHistory) >= 4

\* exactly two valid rates that differ, reported as stable
C30_Witness ==
  /\ Reported
  /\ result.trend # Null
  /\ Len(ValidPairsFrom(snapshotHistory, 1)) = 2
  /\ TwoRatesDiffer(snapshotHistory)
  /\ result.trend[1].trend = "stable"

\* four entries with three valid rates are enough for a trend that is not stable
C30_UnstableFromFourEntries ==
  /\ Reported
  /\ result.trend # Null
  /\ Len(snapshotHistory) = 4
  /\ result.trend[1].trend # "stable"

====
